---- MODULE Spec2Model ----
(***************************************************************************)
(* A model of the query client facade (src/core/queryClient.ts) and of the *)
(* dehydrate / hydrate protocol (src/hydration/hydration.ts).              *)
(*                                                                         *)
(* Two clients, "A" and "B", each own one query cache and one mutation     *)
(* cache; a third client, "A2", is made with caches of the other two.      *)
(* Time is a discrete clock (`now`, the value of Date.now()); retention    *)
(* timers fire when the clock reaches their due time.  Query, QueryCache   *)
(* and the key hasher are not part of the sources at hand; they are        *)
(* modelled from the design document (sections 3, 4.3, 4.4).               *)
(***************************************************************************)
EXTENDS Integers, Sequences, FiniteSets, TLC

VARIABLES
    now,          \* Date.now()
    cache,        \* cache[c]: the queries of client c's QueryCache, in insertion order
    retryers,     \* retryers[c][h]: the running retryers (fetches) of the query h of client c
    calls,        \* the fetchQueryData / prefetchQuery calls made so far, with their promises
    hydrations,   \* how many times hydrate() was called
    dehydrated,   \* the last result of dehydrate(): the payload and the cache it was taken from
    last,         \* what the last operation was, what it was given and what it found
    mountedClients,   \* the process-wide list of mounted clients
    queryDefaults,    \* queryDefaults[c]: the query defaults registered with client c, in order
    mutationDefaults, \* mutationDefaults[c]: the mutation defaults registered with client c
    mutationCache     \* mutationCache[c]: the mutations of client c's MutationCache

vars == <<now, cache, retryers, calls, hydrations, dehydrated, last, mountedClients,
          queryDefaults, mutationDefaults, mutationCache>>

----------------------------------------------------------------------------
\* Bounds of the model

\* The clock runs from 1 to MaxTime.
MaxTime == 3
\* At most MaxCalls calls of fetchQueryData / prefetchQuery are made.
MaxCalls == 2
\* At most MaxHydrations calls of hydrate are made.
MaxHydrations == 1
\* At most MaxObservers observers are subscribed to a query.
MaxObservers == 1
\* At most MaxMounts entries are in the list of mounted clients.
MaxMounts == 3

----------------------------------------------------------------------------
\* JavaScript values

\* `undefined` where a string, a key or an object is expected.
Undefined == "undefined"
\* `undefined` where a number is expected.
UndefinedNum == -2
\* `null` where a number is expected (what JSON makes of Infinity).
NullNum == -3
\* Number.POSITIVE_INFINITY
Infinity == 1000000
\* The wire encoding of Infinity, hydration.ts:35 and :39.
InfinityCode == -1
\* Query's default cacheTime, 5 * 60 * 1000.
DefaultCacheTime == 300000

Clients == {"A", "B"}
Keys == {"k1", "k2"}

\* a < b on JavaScript numbers: any comparison with undefined (NaN) is false.
JsLess(a, b) == a # UndefinedNum /\ b # UndefinedNum /\ a < b

Max(a, b) == IF a < b THEN b ELSE a

\* hashQueryKey: the canonical serialization of a key; for a string key,
\* JSON.stringify of it.
HashQueryKey(queryKey) == "\"" \o queryKey \o "\""

Hashes == {HashQueryKey(k) : k \in Keys}

----------------------------------------------------------------------------
\* Options: QueryOptions / FetchQueryOptions, a field that is not given is undefined.

EmptyOptions ==
    [queryKey |-> Undefined, queryHash |-> Undefined, cacheTime |-> UndefinedNum,
     staleTime |-> UndefinedNum, retry |-> UndefinedNum, throwOnError |-> Undefined]

\* { ...a, ...b }: the fields b gives win over those of a.
Spread(a, b) ==
    [queryKey  |-> IF b.queryKey = Undefined THEN a.queryKey ELSE b.queryKey,
     queryHash |-> IF b.queryHash = Undefined THEN a.queryHash ELSE b.queryHash,
     cacheTime |-> IF b.cacheTime = UndefinedNum THEN a.cacheTime ELSE b.cacheTime,
     staleTime |-> IF b.staleTime = UndefinedNum THEN a.staleTime ELSE b.staleTime,
     retry     |-> IF b.retry = UndefinedNum THEN a.retry ELSE b.retry,
     throwOnError |-> IF b.throwOnError = Undefined THEN a.throwOnError ELSE b.throwOnError]

\* new QueryClient(): this.defaultOptions = config.defaultOptions || {}
ClientDefaultOptions(c) ==
    IF c = "A" THEN [EmptyOptions EXCEPT !.retry = 2] ELSE EmptyOptions

\* QueryClient.defaultQueryOptions
DefaultQueryOptions(c, options) == Spread(ClientDefaultOptions(c), options)

\* QueryClient.defaultQueryObserverOptions
DefaultQueryObserverOptions(c, options) == Spread(ClientDefaultOptions(c), options)

----------------------------------------------------------------------------
\* Query state (design document, section 3 and 4.3)

\* getDefaultState of a query without initialData
DefaultState ==
    [kind |-> "object", data |-> Undefined, dataUpdatedAt |-> 0, error |-> "null",
     errorUpdatedAt |-> 0, updatedAt |-> 0, fetchFailureCount |-> 0,
     isFetching |-> FALSE, isInvalidated |-> FALSE, status |-> "idle"]

\* What reading the fields of a value that is no state object gives:
\* every property of a string is undefined.
NoFields(kind) ==
    [kind |-> kind, data |-> Undefined, dataUpdatedAt |-> UndefinedNum, error |-> Undefined,
     errorUpdatedAt |-> UndefinedNum, updatedAt |-> UndefinedNum,
     fetchFailureCount |-> UndefinedNum, isFetching |-> FALSE, isInvalidated |-> FALSE,
     status |-> Undefined]

\* a payload entry without a state
MissingState == NoFields("undefined")
\* a payload entry whose state is a string
StringState == NoFields("string")

\* `fetch` begins
FetchBegin(s) ==
    [s EXCEPT !.isFetching = TRUE,
              !.fetchFailureCount = 0,
              !.status = IF s.data = Undefined THEN "loading" ELSE s.status]

\* fetch success
FetchSuccess(s, data, t) ==
    [s EXCEPT !.data = data, !.dataUpdatedAt = t, !.updatedAt = Max(t, s.errorUpdatedAt),
              !.error = "null", !.fetchFailureCount = 0, !.isFetching = FALSE,
              !.isInvalidated = FALSE, !.status = "success"]

\* fetch failure (final)
FetchError(s, t) ==
    [s EXCEPT !.error = "Error", !.errorUpdatedAt = t, !.updatedAt = Max(t, s.dataUpdatedAt),
              !.fetchFailureCount = s.fetchFailureCount + 1, !.isFetching = FALSE,
              !.status = "error"]

\* fetch failure (attempt)
FetchFailed(s) == [s EXCEPT !.fetchFailureCount = s.fetchFailureCount + 1]

\* Query.isStaleByTime(staleTime = 0)
IsStaleByTime(q, staleTime, t) ==
    LET st == IF staleTime = UndefinedNum THEN 0 ELSE staleTime
    IN  \/ q.state.isInvalidated
        \/ /\ q.state.dataUpdatedAt # UndefinedNum
           /\ st # Infinity
           /\ t - q.state.dataUpdatedAt >= st

----------------------------------------------------------------------------
\* Query and QueryCache (design document, section 4.3 and 4.4)

NoTimer == -1

\* When the retention timer of a query without observers is due.
ScheduleGc(cacheTime, observers, t) ==
    IF observers > 0 \/ cacheTime = Infinity THEN NoTimer ELSE t + cacheTime

\* new Query({options, state}): the retention timer starts at construction.
NewQuery(options, state, t) ==
    LET ct == IF options.cacheTime \in {UndefinedNum, NullNum}
              THEN DefaultCacheTime ELSE options.cacheTime
    IN  [queryKey  |-> options.queryKey,
         queryHash |-> IF options.queryHash = Undefined
                       THEN HashQueryKey(options.queryKey) ELSE options.queryHash,
         options   |-> options,
         state     |-> IF state.kind \in {"undefined", "null"} THEN DefaultState ELSE state,
         cacheTime |-> ct,
         observers |-> 0,
         gcAt      |-> ScheduleGc(ct, 0, t),
         \* the state before the last fetch began, undefined before the first
         revertState |-> MissingState]

\* The index in qs of the query with this hash, 0 when there is none.
IndexOf(qs, queryHash) ==
    IF \E i \in 1..Len(qs) : qs[i].queryHash = queryHash
    THEN CHOOSE i \in 1..Len(qs) :
            /\ qs[i].queryHash = queryHash
            /\ \A j \in 1..(i - 1) : qs[j].queryHash # queryHash
    ELSE 0

\* QueryCache.get(queryHash) / QueryCache.find(queryKey), as an index
CacheGet(qs, queryHash) == IndexOf(qs, queryHash)
CacheFind(qs, queryKey) == IndexOf(qs, HashQueryKey(queryKey))

\* A cache that inserts a new query at every build
CacheBuild_AlwaysInserts(qs, options, state, t) == Append(qs, NewQuery(options, state, t))

\* QueryCache.build(client, options, state?): the existing query (its options
\* updated), or a new one appended.
CacheBuild(qs, options, state, t) ==
    LET h == IF options.queryHash = Undefined
             THEN HashQueryKey(options.queryKey) ELSE options.queryHash
        i == IndexOf(qs, h)
    IN  IF i > 0
        THEN [qs EXCEPT ![i].options = options]
        ELSE Append(qs, NewQuery(options, state, t))

\* QueryCache.restore(client, options, state)
CacheRestore(qs, options, state, t) == CacheBuild(qs, options, state, t)

\* Query.setState(state)
QuerySetState(q, state) == [q EXCEPT !.state = state]

\* QueryClient.buildQuery
BuildQuery(qs, options, t) == CacheBuild(qs, options, MissingState, t)

\* QueryClient.restoreQuery
RestoreQuery(qs, options, state, t) == CacheRestore(qs, options, state, t)

----------------------------------------------------------------------------
\* JSON.parse(JSON.stringify(x)): the serialization boundary of the payload

\* A number: Infinity is written as null.
JsonNumber(n) == IF n = Infinity THEN NullNum ELSE n

\* state.data: NaN is written as null; a key whose value is undefined is
\* dropped, and reads as undefined again.
JsonData(d) == IF d = "NaN" THEN "null" ELSE d

\* state.error: an Error object has no enumerable property and is written as {}.
JsonError(e) == IF e = "Error" THEN "{}" ELSE e

JsonState(s) ==
    [s EXCEPT !.data = JsonData(s.data), !.error = JsonError(s.error),
              !.dataUpdatedAt = JsonNumber(s.dataUpdatedAt),
              !.errorUpdatedAt = JsonNumber(s.errorUpdatedAt),
              !.updatedAt = JsonNumber(s.updatedAt)]

JsonQuery(dq) ==
    [dq EXCEPT !.state = JsonState(dq.state),
               !.config = [cacheTime |-> JsonNumber(dq.config.cacheTime)]]

JsonRoundTrip(p) ==
    [p EXCEPT !.queries = [i \in 1..Len(p.queries) |-> JsonQuery(p.queries[i])]]

----------------------------------------------------------------------------
\* src/hydration/hydration.ts

\* serializePositiveNumber without the encoding of Infinity
SerializePositiveNumber_Unencoded(value) == value

SerializePositiveNumber(value) == IF value = Infinity THEN InfinityCode ELSE value

DeserializePositiveNumber(value) == IF value = InfinityCode THEN Infinity ELSE value

DehydrateQuery(query) ==
    [config    |-> [cacheTime |-> SerializePositiveNumber(query.cacheTime)],
     state     |-> query.state,
     queryKey  |-> query.queryKey,
     queryHash |-> query.queryHash]

\* defaultShouldDehydrate as "not in error"
DefaultShouldDehydrate_NotError(query) == query.state.status # "error"

DefaultShouldDehydrate(query) == query.state.status = "success"

\* The shouldDehydrate functions a caller passes: none (undefined), one that
\* takes every query, and the one of the test `should filter queries via
\* shouldDehydrate`.
ShouldDehydrateFunctions == {Undefined, "all", "notK1"}

CallShouldDehydrate(f, query) ==
    CASE f = "all" -> TRUE
      [] f = "notK1" -> query.queryKey # "k1"

RECURSIVE DehydrateFrom(_, _, _)
\* client.getQueryCache().getAll().forEach(...), from the i-th query on
DehydrateFrom(qs, shouldDehydrate, i) ==
    IF i > Len(qs) THEN <<>>
    ELSE LET keep == IF shouldDehydrate = Undefined
                     THEN DefaultShouldDehydrate(qs[i])
                     ELSE CallShouldDehydrate(shouldDehydrate, qs[i])
         IN  (IF keep THEN <<DehydrateQuery(qs[i])>> ELSE <<>>)
             \o DehydrateFrom(qs, shouldDehydrate, i + 1)

\* dehydrate(client, {shouldDehydrate})
Dehydrate(qs, shouldDehydrate) ==
    [kind |-> "object", hasQueries |-> TRUE, queries |-> DehydrateFrom(qs, shouldDehydrate, 1)]

\* The options hydrate gives restoreQuery (lines 109-114)
RestoreOptions(dehydratedQuery, defaultOptions) ==
    [defaultOptions EXCEPT
        !.queryKey = dehydratedQuery.queryKey,
        !.queryHash = dehydratedQuery.queryHash,
        !.cacheTime = DeserializePositiveNumber(dehydratedQuery.config.cacheTime)]

\* The callback comparing with <= in place of <
HydrateQuery_OverwritesEqual(qs, dehydratedQuery, defaultOptions, t) ==
    LET i == CacheGet(qs, dehydratedQuery.queryHash)
    IN  IF i > 0
        THEN IF dehydratedQuery.state.kind \in {"undefined", "null"}
             THEN [cache |-> qs, threw |-> TRUE]
             ELSE IF JsLess(qs[i].state.updatedAt, dehydratedQuery.state.updatedAt)
                     \/ qs[i].state.updatedAt = dehydratedQuery.state.updatedAt
                  THEN [cache |-> [qs EXCEPT ![i] = QuerySetState(qs[i], dehydratedQuery.state)],
                        threw |-> FALSE]
                  ELSE [cache |-> qs, threw |-> FALSE]
        ELSE [cache |-> RestoreQuery(qs,
                            RestoreOptions(dehydratedQuery, defaultOptions),
                            dehydratedQuery.state, t),
              threw |-> FALSE]

\* The callback leaving every query that is in the cache as it is
HydrateQuery_KeepsExisting(qs, dehydratedQuery, defaultOptions, t) ==
    LET i == CacheGet(qs, dehydratedQuery.queryHash)
    IN  IF i > 0
        THEN IF dehydratedQuery.state.kind \in {"undefined", "null"}
             THEN [cache |-> qs, threw |-> TRUE]
             ELSE IF FALSE
                  THEN [cache |-> [qs EXCEPT ![i] = QuerySetState(qs[i], dehydratedQuery.state)],
                        threw |-> FALSE]
                  ELSE [cache |-> qs, threw |-> FALSE]
        ELSE [cache |-> RestoreQuery(qs,
                            RestoreOptions(dehydratedQuery, defaultOptions),
                            dehydratedQuery.state, t),
              threw |-> FALSE]

\* The callback restoring with the cacheTime as the payload encodes it
HydrateQuery_EncodedCacheTime(qs, dehydratedQuery, defaultOptions, t) ==
    LET i == CacheGet(qs, dehydratedQuery.queryHash)
    IN  IF i > 0
        THEN IF dehydratedQuery.state.kind \in {"undefined", "null"}
             THEN [cache |-> qs, threw |-> TRUE]
             ELSE IF JsLess(qs[i].state.updatedAt, dehydratedQuery.state.updatedAt)
                  THEN [cache |-> [qs EXCEPT ![i] = QuerySetState(qs[i], dehydratedQuery.state)],
                        threw |-> FALSE]
                  ELSE [cache |-> qs, threw |-> FALSE]
        ELSE [cache |-> RestoreQuery(qs,
                            [RestoreOptions(dehydratedQuery, defaultOptions) EXCEPT
                                !.cacheTime = dehydratedQuery.config.cacheTime],
                            dehydratedQuery.state, t),
              threw |-> FALSE]

\* The callback spreading defaultOptions after the fields of the payload
HydrateQuery_DefaultsLast(qs, dehydratedQuery, defaultOptions, t) ==
    LET i == CacheGet(qs, dehydratedQuery.queryHash)
    IN  IF i > 0
        THEN IF dehydratedQuery.state.kind \in {"undefined", "null"}
             THEN [cache |-> qs, threw |-> TRUE]
             ELSE IF JsLess(qs[i].state.updatedAt, dehydratedQuery.state.updatedAt)
                  THEN [cache |-> [qs EXCEPT ![i] = QuerySetState(qs[i], dehydratedQuery.state)],
                        threw |-> FALSE]
                  ELSE [cache |-> qs, threw |-> FALSE]
        ELSE [cache |-> RestoreQuery(qs,
                            Spread(RestoreOptions(dehydratedQuery, defaultOptions), defaultOptions),
                            dehydratedQuery.state, t),
              threw |-> FALSE]

\* The callback overwriting the state of every query that is in the cache
HydrateQuery_Overwrites(qs, dehydratedQuery, defaultOptions, t) ==
    LET i == CacheGet(qs, dehydratedQuery.queryHash)
    IN  IF i > 0
        THEN IF dehydratedQuery.state.kind \in {"undefined", "null"}
             THEN [cache |-> qs, threw |-> TRUE]
             ELSE IF TRUE
                  THEN [cache |-> [qs EXCEPT ![i] = QuerySetState(qs[i], dehydratedQuery.state)],
                        threw |-> FALSE]
                  ELSE [cache |-> qs, threw |-> FALSE]
        ELSE [cache |-> RestoreQuery(qs,
                            RestoreOptions(dehydratedQuery, defaultOptions),
                            dehydratedQuery.state, t),
              threw |-> FALSE]

\* hydrate restoring every entry as a new query, whatever the cache holds
HydrateQuery_AlwaysAdds(qs, dehydratedQuery, defaultOptions, t) ==
    [cache |-> Append(qs, NewQuery(RestoreOptions(dehydratedQuery, defaultOptions),
                                   dehydratedQuery.state, t)),
     threw |-> FALSE]

\* The callback comparing with !== in place of <
HydrateQuery_OverwritesDifferent(qs, dehydratedQuery, defaultOptions, t) ==
    LET i == CacheGet(qs, dehydratedQuery.queryHash)
    IN  IF i > 0
        THEN IF dehydratedQuery.state.kind \in {"undefined", "null"}
             THEN [cache |-> qs, threw |-> TRUE]
             ELSE IF qs[i].state.updatedAt # dehydratedQuery.state.updatedAt
                  THEN [cache |-> [qs EXCEPT ![i] = QuerySetState(qs[i], dehydratedQuery.state)],
                        threw |-> FALSE]
                  ELSE [cache |-> qs, threw |-> FALSE]
        ELSE [cache |-> RestoreQuery(qs,
                            RestoreOptions(dehydratedQuery, defaultOptions),
                            dehydratedQuery.state, t),
              threw |-> FALSE]

\* The callback of queries.forEach in hydrate: the cache after it, or that it
\* threw (reading a property of undefined or null is a TypeError).
HydrateQuery(qs, dehydratedQuery, defaultOptions, t) ==
    LET i == CacheGet(qs, dehydratedQuery.queryHash)
    IN  IF i > 0
        THEN IF dehydratedQuery.state.kind \in {"undefined", "null"}
             THEN [cache |-> qs, threw |-> TRUE]
             ELSE IF JsLess(qs[i].state.updatedAt, dehydratedQuery.state.updatedAt)
                  THEN [cache |-> [qs EXCEPT ![i] = QuerySetState(qs[i], dehydratedQuery.state)],
                        threw |-> FALSE]
                  ELSE [cache |-> qs, threw |-> FALSE]
        ELSE [cache |-> RestoreQuery(qs,
                            RestoreOptions(dehydratedQuery, defaultOptions),
                            dehydratedQuery.state, t),
              threw |-> FALSE]

RECURSIVE HydrateFrom(_, _, _, _, _)
\* queries.forEach(...), from the i-th entry on.  trace[j] is the cache the
\* j-th entry found; an entry that throws ends the loop.
HydrateFrom(qs, queries, i, defaultOptions, t) ==
    IF i > Len(queries) THEN [cache |-> qs, threw |-> FALSE, trace |-> <<qs>>]
    ELSE LET r == HydrateQuery(qs, queries[i], defaultOptions, t)
         IN  IF r.threw THEN [cache |-> qs, threw |-> TRUE, trace |-> <<qs>>]
             ELSE LET rest == HydrateFrom(r.cache, queries, i + 1, defaultOptions, t)
                  IN  [rest EXCEPT !.trace = <<qs>> \o rest.trace]

\* hydrate with `typeof dehydratedState !== 'object'` alone: null is an
\* object to typeof, and reading its queries is a TypeError.
Hydrate_NullUnchecked(qs, dehydratedState, defaultOptions, t) ==
    IF dehydratedState.kind \notin {"object", "null"}
    THEN [cache |-> qs, threw |-> FALSE, trace |-> <<qs>>]
    ELSE IF dehydratedState.kind = "null"
         THEN [cache |-> qs, threw |-> TRUE, trace |-> <<qs>>]
         ELSE LET queries == IF dehydratedState.hasQueries
                             THEN dehydratedState.queries ELSE <<>>
              IN  HydrateFrom(qs, queries, 1, defaultOptions, t)

\* hydrate(client, dehydratedState, {defaultOptions})
Hydrate(qs, dehydratedState, defaultOptions, t) ==
    IF dehydratedState.kind # "object"
    THEN [cache |-> qs, threw |-> FALSE, trace |-> <<qs>>]
    ELSE LET queries == IF dehydratedState.hasQueries THEN dehydratedState.queries ELSE <<>>
         IN  HydrateFrom(qs, queries, 1, defaultOptions, t)

----------------------------------------------------------------------------
\* Query.fetch and the promise of a call (design document, section 4.2 and 4.3)

\* retry: false
RetryFalse == 0
\* the retry of a fetch that is given none
DefaultRetry == 3

\* new Retryer({fn, retry, ...}): the retry option of the fetch that starts it,
\* no failure yet; `call` is the call of fetchQueryData that started it, 0 when
\* an observer or a refetch did.
NewRetryer(options, call) ==
    [retry |-> IF options.retry = UndefinedNum THEN DefaultRetry ELSE options.retry,
     failureCount |-> 0, call |-> call]

\* Query.fetch(options): while isFetching the existing promise is returned and
\* no retryer is started; the options of the call become the query's.  A fetch
\* that starts keeps the state it found, for a cancel that reverts.
QueryFetch(q, options) ==
    IF q.state.isFetching
    THEN [query |-> [q EXCEPT !.options = options], started |-> FALSE]
    ELSE [query |-> [q EXCEPT !.options = options, !.state = FetchBegin(q.state),
                              !.revertState = q.state],
          started |-> TRUE]

Pending == [status |-> "pending", value |-> Undefined]
Resolved(value) == [status |-> "resolved", value |-> value]
Rejected(value) == [status |-> "rejected", value |-> value]

\* fetchQueryData catching errors as prefetchQuery does
CallOutcome_CatchesAll(kind, outcome) ==
    IF kind = "prefetchQuery" \/ outcome.status = "rejected"
    THEN Resolved(Undefined) ELSE outcome

\* prefetchQuery as fetchQueryData().then(noop), without the catch
CallOutcome_ThenOnly(kind, outcome) ==
    IF kind = "prefetchQuery" /\ outcome.status = "resolved"
    THEN Resolved(Undefined) ELSE outcome

\* What the promise of a call settles with, given what the promise of
\* Query.fetch settled with: prefetchQuery is fetchQueryData().then(noop).catch(noop).
CallOutcome(kind, outcome) ==
    IF kind = "prefetchQuery" THEN Resolved(Undefined) ELSE outcome

\* promise.then(noop) and promise.catch(noop)
ThenNoop(outcome) == IF outcome.status = "resolved" THEN Resolved(Undefined) ELSE outcome
CatchNoop(outcome) == IF outcome.status = "rejected" THEN Resolved(Undefined) ELSE outcome

\* refetchQueries, lines 201-207: Promise.all(promises).then(noop), with
\* catch(noop) unless options.throwOnError is truthy.
RefetchOutcome(throwOnError, outcome) ==
    IF throwOnError = "true" THEN ThenNoop(outcome) ELSE CatchNoop(ThenNoop(outcome))

\* The promise of a refetchQueries call when the fetches of the queries hs of
\* client c settle with outcome: Promise.all rejects with the first rejection
\* and resolves when every promise it was given has resolved.  `awaits` are
\* the queries of the call whose fetch has not settled.
SettleRefetch(call, c, hs, outcome) ==
    IF call.kind # "refetchQueries" \/ call.client # c \/ call.awaits \cap hs = {}
    THEN call
    ELSE [call EXCEPT
            !.awaits = call.awaits \ hs,
            !.outcome = IF call.outcome # Pending THEN call.outcome
                        ELSE IF outcome.status = "rejected"
                             THEN RefetchOutcome(call.throwOnError, outcome)
                        ELSE IF call.awaits \ hs = {}
                             THEN RefetchOutcome(call.throwOnError, Resolved(<<>>))
                        ELSE Pending]

----------------------------------------------------------------------------
\* src/core/queryClient.ts

\* fetchQueryData without the default of retry
FetchQueryOptions_NoRetryDefault(c, queryKey, options) ==
    LET parsedOptions == [options EXCEPT !.queryKey = queryKey]
    IN  DefaultQueryOptions(c, parsedOptions)

\* fetchQueryData, lines 273-280: the parsed arguments, retry defaulted to
\* false, over the client's default options.
FetchQueryOptions(c, queryKey, options) ==
    LET parsedOptions == [options EXCEPT !.queryKey = queryKey]
    IN  DefaultQueryOptions(c,
            [parsedOptions EXCEPT !.retry = IF parsedOptions.retry = UndefinedNum
                                           THEN RetryFalse ELSE parsedOptions.retry])

\* fetchQueryData calling isStaleByTime() without the staleTime of the call
FetchQueryDataPlan_NoStaleTime(qs, defaultedOptions, t) ==
    LET i == CacheFind(qs, defaultedOptions.queryKey)
    IN  IF i = 0 THEN "build"
        ELSE IF ~IsStaleByTime(qs[i], UndefinedNum, t) THEN "cached"
        ELSE "fetch"

\* fetchQueryData, lines 282-292: build a query, answer from the cache, or fetch.
FetchQueryDataPlan(qs, defaultedOptions, t) ==
    LET i == CacheFind(qs, defaultedOptions.queryKey)
    IN  IF i = 0 THEN "build"
        ELSE IF ~IsStaleByTime(qs[i], defaultedOptions.staleTime, t) THEN "cached"
        ELSE "fetch"

----------------------------------------------------------------------------
\* The initial state: two new clients, nothing dehydrated yet.

NoLast == [op |-> "none"]

Init ==
    /\ now = 1
    /\ cache = [c \in Clients |-> <<>>]
    /\ retryers = [c \in Clients |-> [h \in Hashes |-> <<>>]]
    /\ calls = <<>>
    /\ hydrations = 0
    /\ dehydrated = [made |-> FALSE, shouldDehydrate |-> Undefined,
                     payload |-> Dehydrate(<<>>, Undefined), source |-> <<>>]
    /\ last = NoLast
    /\ mountedClients = <<>>
    /\ queryDefaults = [c \in Clients |-> <<>>]
    /\ mutationDefaults = [c \in Clients |-> <<>>]
    /\ mutationCache = [c \in Clients |-> <<>>]

----------------------------------------------------------------------------
\* Actions

\* client.fetchQueryData(queryKey, fn, options) or, with kind "prefetchQuery",
\* client.prefetchQuery(queryKey, fn, options), up to the promise it returns.
FetchQueryData(c, queryKey, kind, options) ==
    /\ Len(calls) < MaxCalls
    /\ LET defaultedOptions == FetchQueryOptions(c, queryKey, options)
           qs == cache[c]
           found == CacheFind(qs, queryKey)
           plan == FetchQueryDataPlan(qs, defaultedOptions, now)
           built == IF plan = "build" THEN BuildQuery(qs, defaultedOptions, now) ELSE qs
           i == CacheFind(built, queryKey)
           h == built[i].queryHash
           f == QueryFetch(built[i], defaultedOptions)
           starts == plan # "cached" /\ f.started
           call == [client   |-> c,
                    queryHash |-> h,
                    kind     |-> kind,
                    retry    |-> options.retry,
                    throwOnError |-> options.throwOnError,
                    \* what the call found
                    existed  |-> found > 0,
                    stale    |-> found > 0 /\ IsStaleByTime(qs[found], defaultedOptions.staleTime, now),
                    fetching |-> found > 0 /\ qs[found].state.isFetching,
                    cached   |-> IF found > 0 THEN qs[found].state.data ELSE Undefined,
                    \* what the call did
                    flight   |-> Cardinality({n \in 1..Len(calls) :
                                     /\ calls[n].client = c /\ calls[n].queryHash = h
                                     /\ calls[n].invoked}) + (IF starts THEN 1 ELSE 0),
                    invoked  |-> starts,
                    joined   |-> plan # "cached",
                    outcome  |-> IF plan = "cached"
                                 THEN CallOutcome(kind, Resolved(built[i].state.data))
                                 ELSE Pending]
       IN  /\ cache' = [cache EXCEPT ![c] = IF plan = "cached" THEN qs
                                            ELSE [built EXCEPT ![i] = f.query]]
           /\ retryers' = IF starts
                          THEN [retryers EXCEPT ![c][h] =
                                    Append(@, NewRetryer(defaultedOptions, Len(calls) + 1))]
                          ELSE retryers
           /\ calls' = Append(calls, call)
    /\ last' = NoLast
    /\ UNCHANGED <<mountedClients, now, hydrations, dehydrated,
                 queryDefaults, mutationDefaults, mutationCache>>

\* The sequence without its r-th element
Without(seq, r) == [j \in 1..(Len(seq) - 1) |-> IF j < r THEN seq[j] ELSE seq[j + 1]]

\* An invocation of the fetch function by the r-th retryer of query h of client
\* c returns `result`, or throws.  A failure that the retry option covers is
\* counted and the function is invoked again after the retry delay; otherwise
\* the retryer settles, the query takes the result and the promise of
\* Query.fetch settles for every call that holds it.
SettleRetryer(c, h, r, result) ==
    LET qs == cache[c]
        i == CacheGet(qs, h)
        rt == retryers[c][h][r]
        again == result = "throw" /\ rt.failureCount < rt.retry
        outcome == IF result = "throw" THEN Rejected("Error") ELSE Resolved(result)
    IN  /\ cache' = [cache EXCEPT ![c] =
                IF i = 0 THEN qs
                ELSE [qs EXCEPT ![i].state =
                        IF again THEN FetchFailed(qs[i].state)
                        ELSE IF result = "throw" THEN FetchError(qs[i].state, now)
                        ELSE FetchSuccess(qs[i].state, result, now)]]
        /\ calls' = [n \in 1..Len(calls) |->
                IF /\ ~again
                   /\ calls[n].client = c /\ calls[n].queryHash = h
                   /\ calls[n].joined /\ calls[n].outcome = Pending
                THEN [calls[n] EXCEPT !.outcome = CallOutcome(calls[n].kind, outcome)]
                ELSE IF again THEN calls[n]
                ELSE SettleRefetch(calls[n], c, {h}, outcome)]
        /\ retryers' = [retryers EXCEPT ![c][h] =
                IF again THEN [@ EXCEPT ![r].failureCount = @ + 1] ELSE Without(@, r)]
        /\ last' = [op |-> "settle", client |-> c, queryHash |-> h, result |-> result,
                    call |-> rt.call, invocations |-> rt.failureCount + 1,
                    settled |-> ~again]

Settle(c, h, result) ==
    /\ \E r \in 1..Len(retryers[c][h]) : SettleRetryer(c, h, r, result)
    /\ UNCHANGED <<mountedClients, now, hydrations, dehydrated,
                 queryDefaults, mutationDefaults, mutationCache>>

\* The retention timer firing one unit of time late
GcDue_Late(q, t) == q.gcAt # NoTimer /\ q.observers = 0 /\ q.gcAt < t

\* The retention timer of q is due at time t.
GcDue(q, t) == q.gcAt # NoTimer /\ q.observers = 0 /\ q.gcAt <= t

\* One unit of time passes; the retention timers that are due fire: the cache
\* removes the query and cancels its retryer.
Tick ==
    /\ now < MaxTime
    /\ now' = now + 1
    /\ cache' = [c \in Clients |-> SelectSeq(cache[c], LAMBDA q : ~GcDue(q, now + 1))]
    /\ LET removed(c, h) == \E i \in 1..Len(cache[c]) :
                                cache[c][i].queryHash = h /\ GcDue(cache[c][i], now + 1)
       IN  /\ retryers' = [c \in Clients |-> [h \in Hashes |->
                               IF removed(c, h) THEN <<>> ELSE retryers[c][h]]]
           /\ calls' = [n \in 1..Len(calls) |->
                   IF /\ removed(calls[n].client, calls[n].queryHash)
                      /\ calls[n].joined /\ calls[n].outcome = Pending
                   THEN [calls[n] EXCEPT
                            !.outcome = CallOutcome(calls[n].kind, Rejected("CancelledError"))]
                   ELSE SettleRefetch(calls[n], calls[n].client,
                                      {h \in Hashes : removed(calls[n].client, h)},
                                      Rejected("CancelledError"))]
           /\ LET events == {<<c, h>> \in Clients \X Hashes : removed(c, h)}
               IN  last' = IF events = {} THEN NoLast
                           ELSE [op |-> "gc", removed |-> events]
    /\ UNCHANGED <<mountedClients, hydrations, dehydrated,
                 queryDefaults, mutationDefaults, mutationCache>>

\* The options of the observers: watchQuery(queryKey, fn, {retry: false})
ObserverOptions(queryKey) == [EmptyOptions EXCEPT !.queryKey = queryKey, !.retry = RetryFalse]

\* The subscription of an observer that leaves the retention timer running
Subscribe_KeepsTimer(c, queryKey) ==
    /\ LET defaultedOptions == DefaultQueryObserverOptions(c, ObserverOptions(queryKey))
           built == BuildQuery(cache[c], defaultedOptions, now)
           i == CacheFind(built, queryKey)
           q == [built[i] EXCEPT !.observers = @ + 1]
           f == IF IsStaleByTime(q, defaultedOptions.staleTime, now)
                THEN QueryFetch(q, defaultedOptions)
                ELSE [query |-> q, started |-> FALSE]
       IN  /\ built[i].observers < MaxObservers
           /\ cache' = [cache EXCEPT ![c] = [built EXCEPT ![i] = f.query]]
           /\ retryers' = IF f.started
                          THEN [retryers EXCEPT ![c][built[i].queryHash] =
                                    Append(@, NewRetryer(defaultedOptions, 0))]
                          ELSE retryers
    /\ last' = NoLast
    /\ UNCHANGED <<mountedClients, now, calls, hydrations, dehydrated,
                 queryDefaults, mutationDefaults, mutationCache>>

\* An observer made by client.watchQuery(queryKey, fn, {retry: false}) gets its
\* first subscriber: the observer builds its query and registers with it, which
\* cancels the retention timer, and fetches on mount when the query is stale.
Subscribe(c, queryKey) ==
    /\ LET defaultedOptions == DefaultQueryObserverOptions(c, ObserverOptions(queryKey))
           built == BuildQuery(cache[c], defaultedOptions, now)
           i == CacheFind(built, queryKey)
           q == [built[i] EXCEPT !.observers = @ + 1, !.gcAt = NoTimer]
           f == IF IsStaleByTime(q, defaultedOptions.staleTime, now)
                THEN QueryFetch(q, defaultedOptions)
                ELSE [query |-> q, started |-> FALSE]
       IN  /\ built[i].observers < MaxObservers
           /\ cache' = [cache EXCEPT ![c] = [built EXCEPT ![i] = f.query]]
           /\ retryers' = IF f.started
                          THEN [retryers EXCEPT ![c][built[i].queryHash] =
                                    Append(@, NewRetryer(defaultedOptions, 0))]
                          ELSE retryers
    /\ last' = NoLast
    /\ UNCHANGED <<mountedClients, now, calls, hydrations, dehydrated,
                 queryDefaults, mutationDefaults, mutationCache>>

\* An observer of query h of client c loses its last subscriber: it leaves the
\* query, and when the query has no observer left its retention timer starts.
Unsubscribe(c, h) ==
    /\ LET i == CacheGet(cache[c], h)
       IN  /\ i > 0
           /\ cache[c][i].observers > 0
           /\ cache' = [cache EXCEPT ![c][i] =
                   [@ EXCEPT !.observers = @ - 1,
                             !.gcAt = ScheduleGc(cache[c][i].cacheTime,
                                                 cache[c][i].observers - 1, now)]]
    /\ last' = NoLast
    /\ UNCHANGED <<mountedClients, now, retryers, calls, hydrations, dehydrated,
                 queryDefaults, mutationDefaults, mutationCache>>

\* client.mount(): mountedClients.push(this); the focus and online handlers
\* are installed.
Mount(c) ==
    /\ Len(mountedClients) < MaxMounts
    /\ mountedClients' = Append(mountedClients, c)
    /\ last' = [op |-> "mount", client |-> c]
    /\ UNCHANGED <<now, cache, retryers, calls, hydrations, dehydrated,
                 queryDefaults, mutationDefaults, mutationCache>>

\* mountedClients.indexOf(client): the first index of c, 0 when there is none
\* (where indexOf gives -1).
MountedIndexOf(c) ==
    IF \E i \in 1..Len(mountedClients) : mountedClients[i] = c
    THEN CHOOSE i \in 1..Len(mountedClients) :
            /\ mountedClients[i] = c
            /\ \A j \in 1..(i - 1) : mountedClients[j] # c
    ELSE 0

\* client.unmount(): the first entry of the client is taken out of the list.
Unmount(c) ==
    /\ mountedClients' = IF MountedIndexOf(c) > 0
                         THEN Without(mountedClients, MountedIndexOf(c))
                         ELSE mountedClients
    /\ last' = [op |-> "unmount", client |-> c]
    /\ UNCHANGED <<now, cache, retryers, calls, hydrations, dehydrated,
                 queryDefaults, mutationDefaults, mutationCache>>

\* A third client, made with the caches of the other two:
\* new QueryClient({queryCache: A.getQueryCache(), mutationCache: B.getMutationCache()}).
SharingClient == "A2"

\* client.getQueryCache() / client.getMutationCache(): the cache the client
\* was constructed with, a cache of its own when none was given.  A cache is
\* named after the client it was made for.
GetQueryCache(c) == IF c = SharingClient THEN "A" ELSE c
GetMutationCache(c) == IF c = SharingClient THEN "B" ELSE c

\* uniq(array): the elements of the array, each at its first occurrence only.
Uniq(array) ==
    LET first == {i \in 1..Len(array) : \A j \in 1..(i - 1) : array[j] # array[i]}
        upTo[n \in 0..Len(array)] ==
            IF n = 0 THEN <<>>
            ELSE IF n \in first THEN Append(upTo[n - 1], array[n]) ELSE upTo[n - 1]
    IN  upTo[Len(array)]

\* getQueryCaches(): uniq(mountedClients.map(client => client.getQueryCache()))
GetQueryCaches ==
    Uniq([i \in 1..Len(mountedClients) |-> GetQueryCache(mountedClients[i])])

\* getMutationCaches(): uniq(mountedClients.map(client => client.getMutationCache()))
GetMutationCaches ==
    Uniq([i \in 1..Len(mountedClients) |-> GetMutationCache(mountedClients[i])])

\* QueryCache.onFocus() / onOnline() of the cache qs: every query with
\* observers asks them whether to refetch, and the observers of the model,
\* with the default refetchOnWindowFocus, refetchOnReconnect and staleTime,
\* refetch a stale query.
CacheOnFocus(qs, t) ==
    [i \in 1..Len(qs) |->
        IF qs[i].observers > 0 /\ IsStaleByTime(qs[i], qs[i].options.staleTime, t)
        THEN QueryFetch(qs[i], qs[i].options)
        ELSE [query |-> qs[i], started |-> FALSE]]

\* onFocus() / onOnline(): the platform reports a focus or online event.
\* When the page is visible and online the mutation caches are told first,
\* then the query caches.  No mutation of the model is paused, so that a
\* mutation cache has nothing to resume.
OnFocus(event, isVisibleAndOnline) ==
    /\ LET mutationCaches == IF isVisibleAndOnline THEN GetMutationCaches ELSE <<>>
           queryCaches == IF isVisibleAndOnline THEN GetQueryCaches ELSE <<>>
           caches == {queryCaches[i] : i \in 1..Len(queryCaches)}
           after == [c \in Clients |-> CacheOnFocus(cache[c], now)]
       IN  /\ cache' = [c \in Clients |->
                   IF c \in caches
                   THEN [i \in 1..Len(cache[c]) |-> after[c][i].query]
                   ELSE cache[c]]
           /\ retryers' = [c \in Clients |-> [h \in Hashes |->
                   IF c \in caches /\ \E i \in 1..Len(cache[c]) :
                                        cache[c][i].queryHash = h /\ after[c][i].started
                   THEN Append(retryers[c][h],
                               NewRetryer(cache[c][CacheGet(cache[c], h)].options, 0))
                   ELSE retryers[c][h]]]
           /\ last' = [op |-> event, isVisibleAndOnline |-> isVisibleAndOnline,
                       delivered |-> caches,
                       received |->
                           [i \in 1..Len(mutationCaches) |->
                               [kind |-> "mutationCache", cache |-> mutationCaches[i]]]
                           \o [i \in 1..Len(queryCaches) |->
                               [kind |-> "queryCache", cache |-> queryCaches[i]]]]
    /\ UNCHANGED <<now, calls, hydrations, dehydrated, mountedClients,
                 queryDefaults, mutationDefaults, mutationCache>>

\* Query filters: a filter that is not given is undefined, a given one "true"
\* or "false".
NoFilters ==
    [queryKey |-> Undefined, active |-> Undefined, inactive |-> Undefined,
     refetchActive |-> Undefined, refetchInactive |-> Undefined]

\* Query.isActive(): the query has an observer that is enabled, as every
\* observer of the model is.
IsActive(q) == q.observers > 0

\* matchQuery(filters, query): the filters that are given, combined with AND.
MatchQuery(filters, q) ==
    /\ filters.queryKey = Undefined \/ q.queryKey = filters.queryKey
    /\ filters.active = Undefined \/ (IsActive(q) <=> filters.active = "true")
    /\ filters.inactive = Undefined \/ (IsActive(q) <=> filters.inactive = "false")

\* QueryCache.findAll(filters), as the set of the indices of the queries.
FindAll(qs, filters) == {i \in 1..Len(qs) : MatchQuery(filters, qs[i])}

\* The options argument of cancelQueries when none is given.
NoCancelOptions == [given |-> FALSE, revert |-> Undefined]

\* cancelQueries passing the options on as they are
CancelOptions_AsGiven(options) == [given |-> TRUE, revert |-> options.revert]

\* cancelQueries, lines 138-142: options || {}, with revert set to true when
\* it is undefined.
CancelOptions(options) ==
    [given |-> TRUE,
     revert |-> IF options.revert = Undefined THEN "true" ELSE options.revert]

\* The error state a cancelled fetch leaves
CancelError(s, t) == [FetchError(s, t) EXCEPT !.error = "CancelledError"]

\* Query.cancel(options) of a query whose retryer is running: with revert and
\* data from before the fetch the state returns to the snapshot taken when the
\* fetch began; otherwise the cancellation is recorded as an error.
QueryCancel(q, cancelOptions, t) ==
    IF cancelOptions.revert = "true" /\ q.revertState.data # Undefined
    THEN [q EXCEPT !.state = q.revertState]
    ELSE [q EXCEPT !.state = CancelError(q.state, t)]

\* The promise Query.cancel() returns: that of the fetch with its outcome
\* swallowed, promise.then(noop).catch(noop), or a resolved promise when no
\* fetch is running.
QueryCancelPromise(running) ==
    IF running THEN CatchNoop(ThenNoop(Rejected("CancelledError"))) ELSE Resolved(Undefined)

\* Promise.all of promises that have settled: the first rejection, or the
\* values.
PromiseAll(promises) ==
    IF \E i \in 1..Len(promises) : promises[i].status = "rejected"
    THEN promises[CHOOSE i \in 1..Len(promises) :
                    /\ promises[i].status = "rejected"
                    /\ \A j \in 1..(i - 1) : promises[j].status # "rejected"]
    ELSE Resolved([i \in 1..Len(promises) |-> promises[i].value])

\* cancelQueries, line 148: Promise.all(promises).then(noop).catch(noop)
CancelPromise(promises) == CatchNoop(ThenNoop(PromiseAll(promises)))

\* client.cancelQueries(filters, options): every query that matches is
\* cancelled; a query without a running retryer has nothing to cancel.
CancelQueries(c, filters, options) ==
    /\ LET qs == cache[c]
           cancelOptions == CancelOptions(options)
           running(i) == retryers[c][qs[i].queryHash] # <<>>
           cancelled == {i \in FindAll(qs, filters) : running(i)}
           found == SelectSeq([i \in 1..Len(qs) |-> i], LAMBDA i : i \in FindAll(qs, filters))
           hashes == {qs[i].queryHash : i \in cancelled}
       IN  /\ cache' = [cache EXCEPT ![c] = [i \in 1..Len(qs) |->
                   IF i \in cancelled THEN QueryCancel(qs[i], cancelOptions, now)
                   ELSE qs[i]]]
           /\ retryers' = [retryers EXCEPT ![c] = [h \in Hashes |->
                   IF h \in hashes THEN Without(@[h], Len(@[h])) ELSE @[h]]]
           /\ calls' = [n \in 1..Len(calls) |->
                   IF /\ calls[n].client = c /\ calls[n].queryHash \in hashes
                      /\ calls[n].joined /\ calls[n].outcome = Pending
                   THEN [calls[n] EXCEPT
                            !.outcome = CallOutcome(calls[n].kind, Rejected("CancelledError"))]
                   ELSE SettleRefetch(calls[n], c, hashes, Rejected("CancelledError"))]
           /\ last' = [op |-> "cancelQueries", client |-> c, filters |-> filters,
                       options |-> options, cancelled |-> hashes,
                       promise |-> CancelPromise([k \in 1..Len(found) |->
                                       QueryCancelPromise(running(found[k]))])]
    /\ UNCHANGED <<now, hydrations, dehydrated, mountedClients,
                 queryDefaults, mutationDefaults, mutationCache>>

\* Query.invalidate()
QueryInvalidate(q) == [q EXCEPT !.state.isInvalidated = TRUE]

\* invalidateQueries, lines 167-171: the filters of the refetch are the
\* caller's with active and inactive replaced.
RefetchFilters(filters) ==
    [filters EXCEPT
        !.active = IF filters.refetchActive = Undefined THEN "true"
                   ELSE filters.refetchActive,
        !.inactive = IF filters.refetchInactive = Undefined THEN "false"
                     ELSE filters.refetchInactive]

\* client.refetchQueries(filters) on the queries qs: query.fetch() for every
\* query that matches, with the options the query has.
RefetchQueries(qs, filters) ==
    [i \in 1..Len(qs) |->
        IF i \in FindAll(qs, filters) THEN QueryFetch(qs[i], qs[i].options)
        ELSE [query |-> qs[i], started |-> FALSE]]

\* client.invalidateQueries(filters): the queries that match are invalidated,
\* then refetchQueries runs with the filters of the refetch.
InvalidateQueries(c, filters) ==
    /\ LET qs == cache[c]
           invalidated == [i \in 1..Len(qs) |->
                             IF i \in FindAll(qs, filters) THEN QueryInvalidate(qs[i])
                             ELSE qs[i]]
           refetched == RefetchQueries(invalidated, RefetchFilters(filters))
           started == {qs[i].queryHash : i \in {j \in 1..Len(qs) : refetched[j].started}}
       IN  /\ cache' = [cache EXCEPT ![c] = [i \in 1..Len(qs) |-> refetched[i].query]]
           /\ retryers' = [retryers EXCEPT ![c] = [h \in Hashes |->
                   IF h \in started
                   THEN Append(@[h], NewRetryer(qs[CacheGet(qs, h)].options, 0))
                   ELSE @[h]]]
           /\ last' = [op |-> "invalidateQueries", client |-> c, filters |-> filters,
                       started |-> started]
    /\ UNCHANGED <<now, calls, hydrations, dehydrated, mountedClients,
                 queryDefaults, mutationDefaults, mutationCache>>

\* The options argument of refetchQueries when none is given.
NoRefetchOptions == [throwOnError |-> Undefined]

\* client.refetchQueries(filters, options), up to the promise it returns.
DoRefetchQueries(c, filters, options) ==
    /\ Len(calls) < MaxCalls
    /\ LET qs == cache[c]
           refetched == RefetchQueries(qs, filters)
           matched == {qs[i].queryHash : i \in FindAll(qs, filters)}
           started == {qs[i].queryHash : i \in {j \in 1..Len(qs) : refetched[j].started}}
           call == [client   |-> c,
                    queryHash |-> Undefined,
                    kind     |-> "refetchQueries",
                    retry    |-> UndefinedNum,
                    throwOnError |-> options.throwOnError,
                    existed  |-> FALSE,
                    stale    |-> FALSE,
                    fetching |-> FALSE,
                    cached   |-> Undefined,
                    flight   |-> 0,
                    invoked  |-> FALSE,
                    joined   |-> FALSE,
                    \* the queries whose promise of Query.fetch the call holds
                    matched  |-> matched,
                    awaits   |-> matched,
                    outcome  |-> IF matched = {}
                                 THEN RefetchOutcome(options.throwOnError, Resolved(<<>>))
                                 ELSE Pending]
       IN  /\ cache' = [cache EXCEPT ![c] = [i \in 1..Len(qs) |-> refetched[i].query]]
           /\ retryers' = [retryers EXCEPT ![c] = [h \in Hashes |->
                   IF h \in started
                   THEN Append(@[h], NewRetryer(qs[CacheGet(qs, h)].options, 0))
                   ELSE @[h]]]
           /\ calls' = Append(calls, call)
           /\ last' = [op |-> "refetchQueries", client |-> c, filters |-> filters,
                       options |-> options, started |-> started]
    /\ UNCHANGED <<now, hydrations, dehydrated, mountedClients,
                 queryDefaults, mutationDefaults, mutationCache>>

\* The options argument of setQueryData when none is given.
NoSetDataOptions == [updatedAt |-> UndefinedNum]

\* Query.setData(updater, options): the state is a success with the new data,
\* updated now unless the options give an updatedAt.
QuerySetData(q, data, options, t) ==
    LET at == IF options.updatedAt = UndefinedNum THEN t ELSE options.updatedAt
    IN  [q EXCEPT !.state = [q.state EXCEPT !.data = data, !.dataUpdatedAt = at,
                                            !.updatedAt = Max(at, q.state.errorUpdatedAt),
                                            !.status = "success"]]

\* client.setQueryData(queryKey, updater, options), lines 99-107, on the queries qs of
\* client c: the query is built from the defaulted {queryKey} and its data set.
SetQueryData(qs, c, queryKey, updater, options, t) ==
    LET parsedOptions == [EmptyOptions EXCEPT !.queryKey = queryKey]
        defaultedOptions == DefaultQueryOptions(c, parsedOptions)
        built == BuildQuery(qs, defaultedOptions, t)
        i == CacheFind(built, queryKey)
    IN  [built EXCEPT ![i] = QuerySetData(built[i], updater, options, t)]

RECURSIVE SetQueryDataFrom(_, _, _, _, _, _)
\* The calls client.setQueryData(queryKey, updaters[k]), from the k-th on.
SetQueryDataFrom(qs, c, queryKey, updaters, k, t) ==
    IF k > Len(updaters) THEN qs
    ELSE SetQueryDataFrom(SetQueryData(qs, c, queryKey, updaters[k], NoSetDataOptions, t),
                          c, queryKey, updaters, k + 1, t)

\* The result view an observer computes from its query.
ResultView(q) ==
    [data |-> q.state.data, dataUpdatedAt |-> q.state.dataUpdatedAt,
     error |-> q.state.error, errorUpdatedAt |-> q.state.errorUpdatedAt,
     failureCount |-> q.state.fetchFailureCount, isFetching |-> q.state.isFetching,
     status |-> q.state.status]

\* An observer that notifies its subscriber at every update of its query
OnQueryUpdate_Always(view, lastView) == [notify |-> TRUE, lastView |-> view]

\* The observer's update, run by the notify manager: the view is computed
\* again, and the subscriber is notified iff it differs from the last one.
OnQueryUpdate(view, lastView) == [notify |-> view # lastView, lastView |-> view]

RECURSIVE Flush(_, _, _, _)
\* notifyManager's flush of the queue, from the j-th callback on, in enqueue
\* order and each callback once: queue[j] is the observer whose update runs,
\* view is the result view of the query now that the batch function has
\* returned, lastViews[o] the view observer o gave its subscriber last.  The
\* result lists the notifications the subscribers receive.
Flush(queue, j, view, lastViews) ==
    IF j > Len(queue) THEN <<>>
    ELSE LET o == queue[j]
             r == OnQueryUpdate(view, lastViews[o])
         IN  (IF r.notify THEN <<[observer |-> o, view |-> view]>> ELSE <<>>)
             \o Flush(queue, j + 1, view, [lastViews EXCEPT ![o] = r.lastView])

\* notifyManager.batch(() => updaters.forEach(u => client.setQueryData(queryKey, u))):
\* every state change of the query schedules the update of each of its
\* observers, and the queue is flushed when the batch function has returned.
\* A single setQueryData outside any batch is the case of one updater: the
\* query opens a batch of its own around its notifications.
Batch(c, queryKey, updaters) ==
    /\ LET qs == cache[c]
           parsedOptions == [EmptyOptions EXCEPT !.queryKey = queryKey]
           built == BuildQuery(qs, DefaultQueryOptions(c, parsedOptions), now)
           i == CacheFind(built, queryKey)
           n == built[i].observers
           before == ResultView(built[i])
           after == SetQueryDataFrom(qs, c, queryKey, updaters, 1, now)
           queue == [j \in 1..(Len(updaters) * n) |-> ((j - 1) % n) + 1]
           received == Flush(queue, 1, ResultView(after[i]), [o \in 1..n |-> before])
       IN  /\ cache' = [cache EXCEPT ![c] = after]
           /\ last' = [op |-> "batch", client |-> c, queryKey |-> queryKey,
                       updaters |-> updaters, observers |-> n, before |-> before,
                       queued |-> Len(queue), received |-> received]
    /\ UNCHANGED <<now, retryers, calls, hydrations, dehydrated, mountedClients,
                 queryDefaults, mutationDefaults, mutationCache>>

\* client.setQueryData(queryKey, updater, options), called on its own.
DoSetQueryData(c, queryKey, updater, options) ==
    /\ cache' = [cache EXCEPT ![c] = SetQueryData(@, c, queryKey, updater, options, now)]
    /\ last' = [op |-> "setQueryData", client |-> c, queryKey |-> queryKey,
                updater |-> updater, options |-> options]
    /\ UNCHANGED <<now, retryers, calls, hydrations, dehydrated, mountedClients,
                 queryDefaults, mutationDefaults, mutationCache>>

\* removeQueries removing only the first query that matches
RemoveAll_FirstOnly(qs, filters) ==
    IF FindAll(qs, filters) = {} THEN qs
    ELSE Without(qs, CHOOSE i \in FindAll(qs, filters) :
                        \A j \in FindAll(qs, filters) : i <= j)

\* removeQueries, lines 120-122: findAll(filters).forEach(query =>
\* queryCache.remove(query)) on the queries qs; what is left of them.
RemoveAll(qs, filters) == SelectSeq(qs, LAMBDA q : ~MatchQuery(filters, q))

\* client.removeQueries(filters): the cache removes every query that matches,
\* which cancels its retryer.
RemoveQueries(c, filters) ==
    /\ LET qs == cache[c]
           left == RemoveAll(qs, filters)
           removed == {qs[i].queryHash : i \in 1..Len(qs)}
                        \ {left[i].queryHash : i \in 1..Len(left)}
       IN  /\ cache' = [cache EXCEPT ![c] = left]
           /\ retryers' = [retryers EXCEPT ![c] = [h \in Hashes |->
                   IF h \in removed THEN <<>> ELSE @[h]]]
           /\ calls' = [n \in 1..Len(calls) |->
                   IF /\ calls[n].client = c /\ calls[n].queryHash \in removed
                      /\ calls[n].joined /\ calls[n].outcome = Pending
                   THEN [calls[n] EXCEPT
                            !.outcome = CallOutcome(calls[n].kind, Rejected("CancelledError"))]
                   ELSE SettleRefetch(calls[n], c, removed, Rejected("CancelledError"))]
           /\ last' = [op |-> "removeQueries", client |-> c, filters |-> filters,
                       removed |-> removed]
    /\ UNCHANGED <<now, hydrations, dehydrated, mountedClients,
                 queryDefaults, mutationDefaults, mutationCache>>

\* The keys that defaults are registered and asked for: array keys.
DefaultsKeys == {<<"todos">>, <<"todos", "1">>, <<"posts">>}

\* The options that are registered as defaults.
DefaultsOptions == {[EmptyOptions EXCEPT !.staleTime = n] : n \in {1, 2}}

\* partialDeepEqual(a, b) on array keys of strings: b partially matches a
\* when every element b has is the element of a at the same index.
PartialDeepEqual(a, b) ==
    /\ Len(b) <= Len(a)
    /\ \A i \in 1..Len(b) : a[i] = b[i]

\* Array.prototype.find with the predicate of lines 392-394 / 405: the index
\* of the first entry x with partialDeepEqual(x.queryKey, queryKey), 0 when
\* there is none.
FindDefaults(list, key) ==
    IF \E i \in 1..Len(list) : PartialDeepEqual(list[i].key, key)
    THEN CHOOSE i \in 1..Len(list) :
            /\ PartialDeepEqual(list[i].key, key)
            /\ \A j \in 1..(i - 1) : ~PartialDeepEqual(list[j].key, key)
    ELSE 0

\* setQueryDefaults pushing a new entry whatever is registered
SetDefaults_Appends(list, key, options) ==
    Append(list, [key |-> key, defaultOptions |-> options])

\* The body of setQueryDefaults / setMutationDefaults on the list of the
\* client: the entry found gets the options, or a new entry is pushed.
SetDefaults(list, key, options) ==
    IF FindDefaults(list, key) > 0
    THEN [list EXCEPT ![FindDefaults(list, key)].defaultOptions = options]
    ELSE Append(list, [key |-> key, defaultOptions |-> options])

\* What getQueryDefaults / getMutationDefaults return when no entry is found.
NoDefaults == [found |-> FALSE, defaultOptions |-> EmptyOptions]

\* The body of getQueryDefaults / getMutationDefaults: find(...)?.defaultOptions.
GetDefaults(list, key) ==
    IF FindDefaults(list, key) > 0
    THEN [found |-> TRUE, defaultOptions |-> list[FindDefaults(list, key)].defaultOptions]
    ELSE NoDefaults

\* client.getQueryDefaults(queryKey)
GetQueryDefaults(c, queryKey) == GetDefaults(queryDefaults[c], queryKey)

\* client.getMutationDefaults(mutationKey)
GetMutationDefaults(c, mutationKey) == GetDefaults(mutationDefaults[c], mutationKey)

\* client.setQueryDefaults(queryKey, options)
SetQueryDefaults(c, queryKey, options) ==
    /\ queryDefaults' = [queryDefaults EXCEPT ![c] = SetDefaults(@, queryKey, options)]
    /\ last' = [op |-> "setQueryDefaults", client |-> c, key |-> queryKey,
                options |-> options]
    /\ UNCHANGED <<now, cache, retryers, calls, hydrations, dehydrated, mountedClients,
                 mutationDefaults, mutationCache>>

\* client.setMutationDefaults(mutationKey, options)
SetMutationDefaults(c, mutationKey, options) ==
    /\ mutationDefaults' = [mutationDefaults EXCEPT ![c] = SetDefaults(@, mutationKey, options)]
    /\ last' = [op |-> "setMutationDefaults", client |-> c, key |-> mutationKey,
                options |-> options]
    /\ UNCHANGED <<now, cache, retryers, calls, hydrations, dehydrated, mountedClients,
                 queryDefaults, mutationCache>>

\* client.getQueryData(queryKey) on the queries qs: find(queryKey)?.state.data
GetQueryData(qs, queryKey) ==
    IF CacheFind(qs, queryKey) > 0 THEN qs[CacheFind(qs, queryKey)].state.data
    ELSE Undefined

\* client.getQueryState(queryKey) on the queries qs: find(queryKey)?.state,
\* `found` telling a state from undefined.
GetQueryState(qs, queryKey) ==
    IF CacheFind(qs, queryKey) > 0
    THEN [found |-> TRUE, state |-> qs[CacheFind(qs, queryKey)].state]
    ELSE [found |-> FALSE, state |-> MissingState]

\* At most MaxMutations mutations are built.
MaxMutations == 2

\* client.buildMutation(options): the mutation cache of the client builds a
\* mutation, idle until it is executed.
BuildMutation(c) ==
    /\ Len(mutationCache[GetMutationCache(c)]) < MaxMutations
    /\ mutationCache' = [mutationCache EXCEPT ![GetMutationCache(c)] =
            Append(@, [mutationId |-> Len(@) + 1, status |-> "idle"])]
    /\ last' = [op |-> "buildMutation", client |-> c]
    /\ UNCHANGED <<now, cache, retryers, calls, hydrations, dehydrated, mountedClients,
                 queryDefaults, mutationDefaults>>

\* client.clear(): queryCache.clear() removes every query, which cancels its
\* retryer, and mutationCache.clear() drops every mutation.
Clear(c) ==
    /\ LET k == GetQueryCache(c)
           removed == {cache[k][i].queryHash : i \in 1..Len(cache[k])}
       IN  /\ cache' = [cache EXCEPT ![k] = <<>>]
           /\ retryers' = [retryers EXCEPT ![k] = [h \in Hashes |-> <<>>]]
           /\ calls' = [n \in 1..Len(calls) |->
                   IF GetQueryCache(calls[n].client) # k THEN calls[n]
                   ELSE IF /\ calls[n].queryHash \in removed
                           /\ calls[n].joined /\ calls[n].outcome = Pending
                   THEN [calls[n] EXCEPT
                            !.outcome = CallOutcome(calls[n].kind, Rejected("CancelledError"))]
                   ELSE SettleRefetch(calls[n], calls[n].client, removed,
                                      Rejected("CancelledError"))]
    /\ mutationCache' = [mutationCache EXCEPT ![GetMutationCache(c)] = <<>>]
    /\ last' = [op |-> "clear", client |-> c]
    /\ UNCHANGED <<now, hydrations, dehydrated, mountedClients,
                 queryDefaults, mutationDefaults>>

\* dehydrate(client, {shouldDehydrate})
DoDehydrate(c, shouldDehydrate) ==
    /\ dehydrated' = [made |-> TRUE, shouldDehydrate |-> shouldDehydrate,
                      payload |-> Dehydrate(cache[c], shouldDehydrate),
                      source |-> cache[c]]
    /\ last' = NoLast
    /\ UNCHANGED <<mountedClients, now, cache, retryers, calls, hydrations,
                 queryDefaults, mutationDefaults, mutationCache>>

\* hydrate(client, dehydratedState, {defaultOptions}); `via` tells where the
\* payload comes from.
DoHydrate(c, via, dehydratedState, defaultOptions) ==
    /\ hydrations < MaxHydrations
    /\ LET r == Hydrate(cache[c], dehydratedState, defaultOptions, now)
       IN  /\ cache' = [cache EXCEPT ![c] = r.cache]
           /\ last' = [op |-> "hydrate", client |-> c, via |-> via,
                       payload |-> dehydratedState, defaultOptions |-> defaultOptions,
                       trace |-> r.trace, threw |-> r.threw]
    /\ hydrations' = hydrations + 1
    /\ UNCHANGED <<mountedClients, now, retryers, calls, dehydrated,
                 queryDefaults, mutationDefaults, mutationCache>>

----------------------------------------------------------------------------
\* The inputs of the operations

\* What a caller gives as {staleTime, cacheTime}
CallOptions(staleTime, cacheTime) ==
    [EmptyOptions EXCEPT !.staleTime = staleTime, !.cacheTime = cacheTime]

CallKinds == {"fetchQueryData", "prefetchQuery"}

\* What the fetch functions given to client c return; "throw" stands for one
\* that throws or rejects.
FetchResults(c) ==
    IF c = "A" THEN {"a", "NaN", "throw"} ELSE {"b"}

\* {defaultOptions} of hydrate: none, or {retry: 10} as in the test together
\* with the fields hydrate sets itself.
HydrateDefaultOptions ==
    {EmptyOptions,
     [EmptyOptions EXCEPT !.retry = 10, !.cacheTime = 7, !.queryKey = "other",
                          !.queryHash = "other"]}

\* An entry of a payload as dehydrate writes it, for a query that succeeded at t.
Entry(queryKey, data, t, cacheTime) ==
    [queryKey |-> queryKey, queryHash |-> HashQueryKey(queryKey),
     state |-> FetchSuccess(DefaultState, data, t), config |-> [cacheTime |-> cacheTime]]

\* An entry whose state is missing or is no object.
BadEntry(queryKey, state) ==
    [queryKey |-> queryKey, queryHash |-> HashQueryKey(queryKey),
     state |-> state, config |-> [cacheTime |-> 1]]

NotAnObject(kind) == [kind |-> kind, hasQueries |-> FALSE, queries |-> <<>>]

ObjectWith(queries) == [kind |-> "object", hasQueries |-> TRUE, queries |-> queries]

\* Payloads that are no object, or null, or an object without a queries list.
EmptyPayloads ==
    {NotAnObject(k) : k \in {"string", "number", "boolean", "undefined", "null"}}
    \cup {[kind |-> "object", hasQueries |-> FALSE, queries |-> <<>>]}

\* Payloads with an entry whose state cannot be read, between good entries.
BrokenPayloads ==
    {ObjectWith(<<Entry("k2", "x", 2, 1), BadEntry("k1", MissingState), Entry("k2", "y", 3, 1)>>),
     ObjectWith(<<BadEntry("k1", StringState), Entry("k2", "y", 3, 1)>>)}

\* A payload as dehydrate and JSON write it.
SoundPayloads ==
    {ObjectWith(<<Entry("k1", "a", 2, InfinityCode), Entry("k2", "a", 1, 1)>>)}

ForeignPayloads == EmptyPayloads \cup BrokenPayloads \cup SoundPayloads

----------------------------------------------------------------------------
\* The specifications

\* What the callers of client A's prefetchQuery give as cacheTime, by key.
SourceCacheTime(queryKey) == IF queryKey = "k1" THEN 1 ELSE Infinity

\* Dehydration of client A.
NextDehydration ==
    \/ \E k \in Keys :
            FetchQueryData("A", k, "prefetchQuery", CallOptions(UndefinedNum, SourceCacheTime(k)))
    \/ \E h \in Hashes : \E r \in FetchResults("A") : Settle("A", h, r)
    \/ Tick
    \/ \E f \in ShouldDehydrateFunctions : DoDehydrate("A", f)

SpecDehydration == Init /\ [][NextDehydration]_vars

\* Dehydration of client A and hydration of client B, both filled by prefetchQuery.
NextHydration ==
    \/ \E k \in Keys :
            FetchQueryData("A", k, "prefetchQuery", CallOptions(UndefinedNum, SourceCacheTime(k)))
    \/ FetchQueryData("B", "k1", "prefetchQuery", CallOptions(UndefinedNum, UndefinedNum))
    \/ \E c \in Clients, h \in Hashes : \E r \in FetchResults(c) : Settle(c, h, r)
    \/ Tick
    \/ DoDehydrate("A", Undefined)
    \/ /\ dehydrated.made
       /\ DoHydrate("B", "json", JsonRoundTrip(dehydrated.payload), EmptyOptions)

SpecHydration == Init /\ [][NextHydration]_vars

\* Hydration of client B from payloads of any origin.
NextForeign ==
    \/ \E k \in Keys :
            FetchQueryData("B", k, "prefetchQuery", CallOptions(UndefinedNum, UndefinedNum))
    \/ \E h \in Hashes : \E r \in FetchResults("B") : Settle("B", h, r)
    \/ Tick
    \/ \E p \in ForeignPayloads, o \in HydrateDefaultOptions : DoHydrate("B", "foreign", p, o)

SpecForeign == Init /\ [][NextForeign]_vars

\* Calls of fetchQueryData and prefetchQuery on client B, whose cache also
\* takes a hydrated query.
NextFetch ==
    \/ \E kind \in CallKinds, st \in {UndefinedNum, 2} :
            FetchQueryData("B", "k1", kind, CallOptions(st, UndefinedNum))
    \/ \E r \in {"b", "throw"} : Settle("B", HashQueryKey("k1"), r)
    \/ Tick
    \/ DoHydrate("B", "foreign", ObjectWith(<<Entry("k1", "a", 1, InfinityCode)>>), EmptyOptions)

SpecFetch == Init /\ [][NextFetch]_vars

\* What the callers of client A's prefetchQuery give as cacheTime, by key,
\* where retention is looked at.
RetainedCacheTime(queryKey) == IF queryKey = "k1" THEN 2 ELSE Infinity

\* Retention: queries of client A made by prefetchQuery and by observers,
\* observers coming and going, and time passing.
NextRetention ==
    \/ \E k \in Keys :
            FetchQueryData("A", k, "prefetchQuery", CallOptions(UndefinedNum, RetainedCacheTime(k)))
    \/ \E h \in Hashes : Settle("A", h, "a")
    \/ Tick
    \/ Subscribe("A", "k1")
    \/ Unsubscribe("A", HashQueryKey("k1"))

SpecRetention == Init /\ [][NextRetention]_vars

\* What a caller gives as {retry, throwOnError}
RetryOptions(retry, throwOnError) ==
    [EmptyOptions EXCEPT !.retry = retry, !.throwOnError = throwOnError]

\* Calls of fetchQueryData and prefetchQuery on client A, whose default
\* options say retry: 2, with fetch functions that may fail.
NextRetry ==
    \/ \E kind \in CallKinds, retry \in {UndefinedNum, 1}, throwOnError \in {Undefined, "true"} :
            FetchQueryData("A", "k1", kind, RetryOptions(retry, throwOnError))
    \/ \E r \in {"a", "throw"} : Settle("A", HashQueryKey("k1"), r)
    \/ Tick

SpecRetry == Init /\ [][NextRetry]_vars

\* Clients mounting and unmounting, with observed queries, and focus and
\* online events.
NextMount ==
    \/ \E c \in Clients : Mount(c)
    \/ \E c \in Clients : Unmount(c)
    \/ \E c \in Clients : Subscribe(c, "k1")
    \/ \E c \in Clients : Settle(c, HashQueryKey("k1"), "b")
    \/ \E event \in {"focus", "online"}, isVisibleAndOnline \in BOOLEAN :
            OnFocus(event, isVisibleAndOnline)

SpecMount == Init /\ [][NextMount]_vars

\* The options of cancelQueries: none, {}, {revert: true}, {revert: false}
CancelOptionsGiven ==
    {NoCancelOptions} \cup
    {[given |-> TRUE, revert |-> r] : r \in {Undefined, "true", "false"}}

\* Fetches and refetches of client A being cancelled, for every key or for one.
NextCancel ==
    \/ \E queryKey \in Keys, kind \in CallKinds :
            FetchQueryData("A", queryKey, kind, EmptyOptions)
    \/ \E h \in Hashes, result \in {"a", "throw"} : Settle("A", h, result)
    \/ \E queryKey \in {Undefined, "k1"}, options \in CancelOptionsGiven :
            CancelQueries("A", [NoFilters EXCEPT !.queryKey = queryKey], options)

SpecCancel == Init /\ [][NextCancel]_vars

\* The filters of invalidateQueries: every key or one, inactive queries only
\* or all, with and without refetchActive: false and refetchInactive: true.
InvalidateFilters ==
    {[NoFilters EXCEPT !.queryKey = queryKey, !.inactive = inactive,
                       !.refetchActive = refetchActive,
                       !.refetchInactive = refetchInactive] :
        queryKey \in {Undefined, "k1"}, inactive \in {Undefined, "true"},
        refetchActive \in {Undefined, "false"}, refetchInactive \in {Undefined, "true"}}

\* The observed query k1 and the unobserved query k2 of client A being
\* invalidated.
NextInvalidate ==
    \/ FetchQueryData("A", "k2", "prefetchQuery", EmptyOptions)
    \/ Subscribe("A", "k1")
    \/ \E h \in Hashes : Settle("A", h, "a")
    \/ \E filters \in InvalidateFilters : InvalidateQueries("A", filters)

SpecInvalidate == Init /\ [][NextInvalidate]_vars

\* The updaters of the setQueryData calls of one batch: one to three values.
BatchUpdaters ==
    UNION {[1..n -> {"x", "y"}] : n \in 1..3}

\* Batches of setQueryData calls on the query k1 of client A, observed or not,
\* fetched or not, at different times.
NextBatch ==
    \/ Subscribe("A", "k1")
    \/ Unsubscribe("A", HashQueryKey("k1"))
    \/ Settle("A", HashQueryKey("k1"), "x")
    \/ Tick
    \/ \E updaters \in BatchUpdaters : Batch("A", "k1", updaters)

SpecBatch == Init /\ [][NextBatch]_vars

\* A payload that lists a queryHash twice, the second time in an entry of
\* another key.
DuplicatePayloads ==
    {ObjectWith(<<Entry("k2", "x", 2, 1),
                  [Entry("k1", "y", 3, 1) EXCEPT !.queryHash = HashQueryKey("k2")]>>)}

\* Every operation that adds queries to the cache of client B or takes them
\* out of it; the fetches stay in flight until their query is removed.
NextCache ==
    \/ \E kind \in CallKinds : FetchQueryData("B", "k1", kind, EmptyOptions)
    \/ Tick
    \/ \E p \in DuplicatePayloads : DoHydrate("B", "foreign", p, EmptyOptions)
    \/ Batch("B", "k1", <<"x">>)
    \/ RemoveQueries("B", NoFilters)

SpecCache == Init /\ [][NextCache]_vars

\* Every state transition of the observed query k1 of client B: the fetch of
\* its observer succeeding and failing, setQueryData with and without an
\* updatedAt, cancel, invalidate, and hydrate of a payload that is ahead of the
\* clock at first and behind it later.
NextUpdatedAt ==
    \/ Subscribe("B", "k1")
    \/ \E result \in {"b", "throw"} : Settle("B", HashQueryKey("k1"), result)
    \/ Tick
    \/ DoHydrate("B", "foreign", ObjectWith(<<Entry("k1", "a", 2, InfinityCode)>>),
                 EmptyOptions)
    \/ \E updatedAt \in {UndefinedNum, 1} :
            DoSetQueryData("B", "k1", "x", [updatedAt |-> updatedAt])
    \/ \E revert \in {Undefined, "false"} :
            CancelQueries("B", NoFilters, [given |-> TRUE, revert |-> revert])
    \/ InvalidateQueries("B", [NoFilters EXCEPT !.refetchActive = "false"])

SpecUpdatedAt == Init /\ [][NextUpdatedAt]_vars

\* Queries of client A in every status, fetched by functions that return a
\* value, return undefined or throw, dehydrated with a shouldDehydrate that
\* takes every query and hydrated into client B, which fetches too.
NextStatus ==
    \/ \E c \in Clients : FetchQueryData(c, "k1", "prefetchQuery", EmptyOptions)
    \/ \E result \in {"a", Undefined, "throw"} : Settle("A", HashQueryKey("k1"), result)
    \/ Settle("B", HashQueryKey("k1"), "b")
    \/ Tick
    \/ DoDehydrate("A", "all")
    \/ /\ dehydrated.made
       /\ DoHydrate("B", "json", JsonRoundTrip(dehydrated.payload), EmptyOptions)

SpecStatus == Init /\ [][NextStatus]_vars

\* Defaults are registered with a client, query defaults and mutation
\* defaults side by side.
NextDefaults ==
    \/ \E key \in DefaultsKeys, options \in DefaultsOptions :
            SetQueryDefaults("A", key, options)
    \/ \E key \in DefaultsKeys, options \in DefaultsOptions :
            SetMutationDefaults("A", key, options)

SpecDefaults == Init /\ [][NextDefaults]_vars

\* Three clients, two of them sharing a query cache and two a mutation cache,
\* are mounted and unmounted while focus and online events arrive.
NextFocus ==
    \/ \E c \in Clients \cup {SharingClient} : Mount(c)
    \/ \E c \in Clients \cup {SharingClient} : Unmount(c)
    \/ Subscribe("A", "k1")
    \/ Settle("A", HashQueryKey("k1"), "b")
    \/ \E event \in {"focus", "online"}, isVisibleAndOnline \in BOOLEAN :
            OnFocus(event, isVisibleAndOnline)

SpecFocus == Init /\ [][NextFocus]_vars

\* Two queries of one client are refetched together and cancelled while
\* their fetches succeed and fail.
NextRefetch ==
    \/ \E queryKey \in Keys : DoSetQueryData("A", queryKey, "x", NoSetDataOptions)
    \/ \E throwOnError \in {Undefined, "true"} :
            DoRefetchQueries("A", NoFilters, [throwOnError |-> throwOnError])
    \/ \E result \in {"b", "throw"} : Settle("A", HashQueryKey("k1"), result)
    \/ Settle("A", HashQueryKey("k2"), "b")
    \/ CancelQueries("A", NoFilters, NoCancelOptions)

SpecRefetch == Init /\ [][NextRefetch]_vars

\* The filters of removeQueries: none, a key, the active and the inactive
\* queries.
RemoveFilters ==
    {NoFilters, [NoFilters EXCEPT !.queryKey = "k1"],
     [NoFilters EXCEPT !.active = "true"], [NoFilters EXCEPT !.inactive = "true"]}

\* Queries with and without observers and mutations are removed from the
\* caches of a client.
NextRemove ==
    \/ \E queryKey \in Keys : Subscribe("A", queryKey)
    \/ \E queryKey \in Keys : DoSetQueryData("A", queryKey, "x", NoSetDataOptions)
    \/ Settle("A", HashQueryKey("k1"), "b")
    \/ BuildMutation("A")
    \/ \E filters \in RemoveFilters : RemoveQueries("A", filters)
    \/ Clear("A")

SpecRemove == Init /\ [][NextRemove]_vars

\* Payloads that hold the query k1 as it was at three different times.
OrderPayloads ==
    {ObjectWith(<<Entry("k1", "p1", 1, 1)>>), ObjectWith(<<Entry("k1", "p2", 2, 1)>>),
     ObjectWith(<<Entry("k1", "p3", 3, 1)>>)}

\* Client B, with no query k1, with one that is being fetched or with one
\* that has data, is hydrated from one of the payloads.
NextOrder ==
    \/ Subscribe("B", "k1")
    \/ Settle("B", HashQueryKey("k1"), "b")
    \/ Tick
    \/ \E updatedAt \in {UndefinedNum, 2} :
            DoSetQueryData("B", "k1", "x", [updatedAt |-> updatedAt])
    \/ \E p \in OrderPayloads : DoHydrate("B", "foreign", p, EmptyOptions)

SpecOrder == Init /\ [][NextOrder]_vars

----------------------------------------------------------------------------
\* What the properties below read of a hydration

HasHash(qs, queryHash) == \E i \in 1..Len(qs) : qs[i].queryHash = queryHash

QueryOf(qs, queryHash) == qs[CHOOSE i \in 1..Len(qs) : qs[i].queryHash = queryHash]

Hydrated == last.op = "hydrate"

\* The entries of the payload that the last hydrate went through: the j-th
\* found the cache Before(j) and left the cache After(j).
Processed == 1..(Len(last.trace) - 1)
Before(j) == last.trace[j]
After(j) == last.trace[j + 1]
EntryOf(j) == last.payload.queries[j]

\* The cacheTime a payload entry stands for.
Decoded(code) == IF code = -1 THEN Infinity ELSE code

----------------------------------------------------------------------------
\* C1: for every dehydrated query whose queryHash is already in the target
\* cache, hydrate replaces the state of the existing query when
\* dehydrated.state.updatedAt is strictly greater than the existing
\* state.updatedAt, and changes nothing else; when it is older or equal the
\* cache is left exactly as it was.
C1_OverwriteIffNewer ==
    Hydrated =>
        \A j \in Processed :
            LET h == EntryOf(j).queryHash
            IN  HasHash(Before(j), h) =>
                    IF EntryOf(j).state.updatedAt > QueryOf(Before(j), h).state.updatedAt
                    THEN /\ Len(After(j)) = Len(Before(j))
                         /\ \A i \in 1..Len(Before(j)) :
                                After(j)[i] = IF Before(j)[i].queryHash = h
                                              THEN [Before(j)[i] EXCEPT !.state = EntryOf(j).state]
                                              ELSE Before(j)[i]
                    ELSE After(j) = Before(j)

\* A hydration that found an older query for the hash and gave it the
\* dehydrated state.
C1_Witness ==
    /\ Hydrated
    /\ \E j \in Processed :
        /\ HasHash(Before(j), EntryOf(j).queryHash)
        /\ EntryOf(j).state.updatedAt
              > QueryOf(Before(j), EntryOf(j).queryHash).state.updatedAt
        /\ QueryOf(Before(j), EntryOf(j).queryHash).state.data = "b"
        /\ QueryOf(cache["B"], EntryOf(j).queryHash).state.data = "a"

\* C2 as stated, for data that a serializer can write: after
\* hydrate(B, serialize(dehydrate(A))) every dehydrated key has a query in B
\* with the same hash whose data is the data A had, whatever B held.
C2_RoundTripAlways ==
    (Hydrated /\ last.via = "json") =>
        \A j \in 1..Len(dehydrated.payload.queries) :
            LET e == dehydrated.payload.queries[j]
            IN  /\ HasHash(cache["B"], e.queryHash)
                /\ e.state.data # "NaN" =>
                        QueryOf(cache["B"], e.queryHash).state.data = e.state.data

\* C2, amended: the round trip gives B the data of A for every dehydrated key
\* whose data JSON can represent and for which B held no query, or one with a
\* strictly smaller updatedAt.
C2_RoundTripWhenNewer ==
    (Hydrated /\ last.via = "json") =>
        \A j \in 1..Len(dehydrated.payload.queries) :
            LET e == dehydrated.payload.queries[j]
                held == HasHash(Before(1), e.queryHash)
            IN  /\ HasHash(cache["B"], e.queryHash)
                /\ ( /\ e.state.data # "NaN"
                     /\ held => QueryOf(Before(1), e.queryHash).state.updatedAt
                                    < e.state.updatedAt )
                   => QueryOf(cache["B"], e.queryHash).state.data = e.state.data

\* A round trip that brought the data of A into a cache B that held none for
\* one key and older data for another.
C2_Witness ==
    /\ Hydrated /\ last.via = "json"
    /\ \E j \in 1..Len(dehydrated.payload.queries) :
        LET e == dehydrated.payload.queries[j]
        IN  /\ HasHash(Before(1), e.queryHash)
            /\ QueryOf(Before(1), e.queryHash).state.updatedAt < e.state.updatedAt
            /\ QueryOf(Before(1), e.queryHash).state.data = "b"
            /\ e.state.data = "a"
            /\ QueryOf(cache["B"], e.queryHash).state.data = "a"

\* Whether dehydrate is to take the query, as the caller's function (or, with
\* none given, the success status) says.
Wanted(f, q) ==
    CASE f = Undefined -> q.state.status = "success"
      [] f = "all" -> TRUE
      [] f = "notK1" -> q.queryKey # "k1"

\* C3: the payload of dehydrate holds exactly one entry {queryKey, queryHash,
\* state, config.cacheTime} for each query of the cache that shouldDehydrate
\* accepts and none for any other; without a shouldDehydrate only queries
\* whose status is success are in it.
C3_DehydrateExactlyAccepted ==
    dehydrated.made =>
        LET src == dehydrated.source
            out == dehydrated.payload.queries
        IN  /\ \A i \in 1..Len(src) :
                    Cardinality({j \in 1..Len(out) : out[j].queryHash = src[i].queryHash})
                        = IF Wanted(dehydrated.shouldDehydrate, src[i]) THEN 1 ELSE 0
            /\ \A j \in 1..Len(out) :
                    \E i \in 1..Len(src) :
                        out[j] = [queryKey |-> src[i].queryKey,
                                  queryHash |-> src[i].queryHash,
                                  state |-> src[i].state,
                                  config |-> [cacheTime |-> IF src[i].cacheTime = Infinity
                                                            THEN -1 ELSE src[i].cacheTime]]
            /\ dehydrated.shouldDehydrate = Undefined =>
                    \A j \in 1..Len(out) : out[j].state.status = "success"

\* A dehydration without shouldDehydrate of a cache that holds a successful
\* query and one that is loading or in error.
C3_Witness ==
    /\ dehydrated.made
    /\ dehydrated.shouldDehydrate = Undefined
    /\ Len(dehydrated.source) = 2
    /\ Len(dehydrated.payload.queries) = 1
    /\ \E i \in 1..2 : dehydrated.source[i].state.status \in {"loading", "error"}

\* C4: a cacheTime of Infinity is -1 in the payload and Infinity again on the
\* restored query, a finite one is itself in both, so that the restored
\* query has the cacheTime of the source query.
C4_CacheTimeRoundTrip ==
    (Hydrated /\ last.via = "json") =>
        \A j \in Processed :
            LET raw == dehydrated.payload.queries[j]
                src == QueryOf(dehydrated.source, raw.queryHash)
            IN  /\ raw.config.cacheTime = (IF src.cacheTime = Infinity THEN -1 ELSE src.cacheTime)
                /\ EntryOf(j).config.cacheTime = raw.config.cacheTime
                /\ ~HasHash(Before(j), raw.queryHash) =>
                        QueryOf(After(j), raw.queryHash).cacheTime = src.cacheTime

\* A query of infinite cacheTime and one of finite cacheTime, both restored.
C4_Witness ==
    /\ Hydrated /\ last.via = "json"
    /\ \E j \in Processed :
        /\ ~HasHash(Before(j), EntryOf(j).queryHash)
        /\ EntryOf(j).config.cacheTime = -1
        /\ QueryOf(cache["B"], EntryOf(j).queryHash).cacheTime = Infinity
    /\ \E j \in Processed :
        /\ ~HasHash(Before(j), EntryOf(j).queryHash)
        /\ EntryOf(j).config.cacheTime = 1
        /\ QueryOf(cache["B"], EntryOf(j).queryHash).cacheTime = 1

\* C5: the retention timer of a query restored by hydrate runs from the
\* moment of hydration: restored with cacheTime c (and no observer) its timer
\* is due c after the hydration, whatever the age of the payload; a query is
\* in the cache as long as its timer is not due, and gone once it is.
C5_TimerDueFromHydration ==
    Hydrated =>
        \A j \in Processed :
            ~HasHash(Before(j), EntryOf(j).queryHash) =>
                LET q == QueryOf(After(j), EntryOf(j).queryHash)
                    c == Decoded(EntryOf(j).config.cacheTime)
                IN  /\ q.observers = 0
                    /\ q.gcAt = IF c = Infinity THEN NoTimer ELSE now + c

C5_GoneWhenDue ==
    \A i \in 1..Len(cache["B"]) :
        cache["B"][i].gcAt # NoTimer => now < cache["B"][i].gcAt

C5_KeptUntilDue ==
    \A i \in 1..Len(cache["B"]) :
        LET q == cache["B"][i]
        IN  (q.gcAt = NoTimer \/ now' < q.gcAt) =>
                /\ HasHash(cache'["B"], q.queryHash)
                /\ QueryOf(cache'["B"], q.queryHash).gcAt = q.gcAt

C5_RetentionFromHydration ==
    /\ [](C5_TimerDueFromHydration /\ C5_GoneWhenDue)
    /\ [][C5_KeptUntilDue]_vars

\* A query restored with a finite cacheTime from a payload whose source query
\* was created earlier: the timer of the source is due before that of the
\* restored query.
C5_Witness ==
    /\ Hydrated
    /\ \E j \in Processed :
        LET h == EntryOf(j).queryHash
        IN  /\ ~HasHash(Before(j), h)
            /\ EntryOf(j).config.cacheTime = 1
            /\ QueryOf(cache["B"], h).gcAt = now + 1
            /\ QueryOf(dehydrated.source, h).gcAt < now + 1

\* C6: a query newly restored by hydrate has the caller's default options,
\* with queryKey, queryHash and the decoded cacheTime of the payload entry in
\* place of whatever the default options say for them; a query that was
\* already in the cache keeps its options.
C6_RestoredOptions ==
    Hydrated =>
        \A j \in Processed :
            LET h == EntryOf(j).queryHash
            IN  IF HasHash(Before(j), h)
                THEN QueryOf(After(j), h).options = QueryOf(Before(j), h).options
                ELSE /\ HasHash(After(j), h)
                     /\ QueryOf(After(j), h).options =
                        [queryKey  |-> EntryOf(j).queryKey,
                         queryHash |-> EntryOf(j).queryHash,
                         cacheTime |-> Decoded(EntryOf(j).config.cacheTime),
                         staleTime |-> last.defaultOptions.staleTime,
                         retry     |-> last.defaultOptions.retry,
                         throwOnError |-> last.defaultOptions.throwOnError]

\* A hydration with default options {retry: 10, queryKey, cacheTime, ...}
\* that restored one query and found another one in the cache.
C6_Witness ==
    /\ Hydrated
    /\ last.defaultOptions.retry = 10
    /\ last.defaultOptions.queryKey = "other"
    /\ \E j \in Processed :
        /\ ~HasHash(Before(j), EntryOf(j).queryHash)
        /\ QueryOf(cache["B"], EntryOf(j).queryHash).options.retry = 10
        /\ QueryOf(cache["B"], EntryOf(j).queryHash).options.queryKey = EntryOf(j).queryKey
    /\ \E j \in Processed :
        /\ HasHash(Before(j), EntryOf(j).queryHash)
        /\ QueryOf(cache["B"], EntryOf(j).queryHash).options.retry # 10

\* C7: hydrate with a payload that is no object, or null, or an object
\* without a queries list, raises nothing and leaves the cache as it was.
C7_NoPayloadNoChange ==
    (Hydrated /\ (last.payload.kind # "object" \/ ~last.payload.hasQueries)) =>
        /\ ~last.threw
        /\ cache["B"] = Before(1)

\* hydrate(client, null) on a cache that holds a query.
C7_Witness ==
    /\ Hydrated
    /\ last.payload.kind = "null"
    /\ ~last.threw
    /\ Len(cache["B"]) > 0

\* C8 as stated: an entry whose state is missing or no object is skipped:
\* hydrate raises nothing, the entry creates and changes no query, and every
\* other entry of the list is hydrated.
C8_UnparseableSkipped ==
    Hydrated =>
        /\ ~last.threw
        /\ Len(last.trace) = Len(last.payload.queries) + 1
        /\ \A j \in Processed :
            IF EntryOf(j).state.kind # "object"
            THEN After(j) = Before(j)
            ELSE HasHash(After(j), EntryOf(j).queryHash)

----------------------------------------------------------------------------
\* What the properties below read of the calls

Settled(n) == calls[n].outcome # Pending

\* Two calls of fetchQueryData for the same query of the same client that
\* met the same fetch: one of them started it or both came while it ran.
SameFlight(m, n) ==
    /\ m # n
    /\ calls[m].client = calls[n].client /\ calls[m].queryHash = calls[n].queryHash
    /\ calls[m].kind = "fetchQueryData" /\ calls[n].kind = "fetchQueryData"
    /\ calls[m].invoked \/ calls[m].fetching
    /\ calls[n].invoked \/ calls[n].fetching
    /\ calls[m].flight = calls[n].flight

OneFetchInFlight == \A c \in Clients, h \in Hashes : Len(retryers[c][h]) <= 1

NoSecondInvocation == \A n \in 1..Len(calls) : calls[n].fetching => ~calls[n].invoked

\* C9 as stated: at most one fetch is in flight for a query, a call that
\* comes while the query is fetching does not invoke the fetch function, and
\* all the calls that overlap one fetch settle with the same result.
C9_OverlappingCallsAgree ==
    /\ OneFetchInFlight
    /\ NoSecondInvocation
    /\ \A m, n \in 1..Len(calls) :
            (SameFlight(m, n) /\ Settled(m) /\ Settled(n)) =>
                calls[m].outcome = calls[n].outcome

\* C10 as stated: a call of fetchQueryData or prefetchQuery for a query that
\* is in the cache and not stale for the call's staleTime resolves with the
\* cached data and invokes no fetch function; a call that finds no query, or
\* a stale one, invokes the fetch function.
C10_StaleAlwaysInvokes ==
    \A n \in 1..Len(calls) :
        IF calls[n].existed /\ ~calls[n].stale
        THEN /\ ~calls[n].invoked
             /\ calls[n].outcome = Resolved(calls[n].cached)
        ELSE calls[n].invoked

\* C10, amended: a call for a query that is in the cache and not stale for
\* the call's staleTime invokes no fetch function and is resolved at once:
\* fetchQueryData with the cached data, prefetchQuery, which hands no result
\* on, with undefined.  A call that finds no query, or a stale one, invokes
\* the fetch function, unless the state of the query is already fetching:
\* then it invokes nothing and waits for the fetch in flight.
C10_StaleWindow ==
    \A n \in 1..Len(calls) :
        IF calls[n].existed /\ ~calls[n].stale
        THEN /\ ~calls[n].invoked
             /\ calls[n].outcome = IF calls[n].kind = "fetchQueryData"
                                   THEN Resolved(calls[n].cached)
                                   ELSE Resolved(Undefined)
        ELSE IF calls[n].fetching
             THEN ~calls[n].invoked /\ calls[n].joined /\ calls[n].flight > 0
             ELSE calls[n].invoked

\* A call of fetchQueryData with a staleTime that found the hydrated data
\* fresh and returned it, and a later call that found it stale and fetched.
C10_Witness ==
    /\ \E n \in 1..Len(calls) :
        /\ calls[n].kind = "fetchQueryData"
        /\ calls[n].existed /\ ~calls[n].stale /\ ~calls[n].invoked
        /\ calls[n].cached = "a"
        /\ calls[n].outcome = Resolved("a")
    /\ \E n \in 1..Len(calls) :
        /\ calls[n].existed /\ calls[n].stale /\ ~calls[n].fetching
        /\ calls[n].invoked

----------------------------------------------------------------------------
\* What the properties below read of the retention timers

Present(c, h) == HasHash(cache[c], h)
PresentNext(c, h) == HasHash(cache'[c], h)
Cached(c, h) == QueryOf(cache[c], h)
CachedNext(c, h) == QueryOf(cache'[c], h)

\* The retention timer of the query is set and due at time t.
TimerDueAt(q, t) == q.gcAt = t /\ q.gcAt >= 0
\* The query has no retention timer.
TimerUnset(q) == q.gcAt < 0

\* In this step the retention timer of the query starts: a query without
\* observers is made, or the last observer of a query leaves.
TimerStarts(c, h) ==
    /\ PresentNext(c, h) /\ CachedNext(c, h).observers = 0
    /\ ~Present(c, h) \/ Cached(c, h).observers > 0

\* The timer started in this step is due cacheTime from now, and a cacheTime
\* of Infinity starts none.
StartedTimerIsDueAfterCacheTime(c, h) ==
    TimerStarts(c, h) =>
        IF CachedNext(c, h).cacheTime = Infinity
        THEN TimerUnset(CachedNext(c, h))
        ELSE TimerDueAt(CachedNext(c, h), now + CachedNext(c, h).cacheTime)

\* C11, in every state: a query without observers that is in the cache has
\* either no timer, its cacheTime being Infinity, or a timer that is not due
\* yet.
C11_PresentUntilDue ==
    \A c \in Clients, h \in Hashes :
        (Present(c, h) /\ Cached(c, h).observers = 0) =>
            IF Cached(c, h).cacheTime = Infinity
            THEN TimerUnset(Cached(c, h))
            ELSE Cached(c, h).gcAt > now

\* C11, in every step: a timer that starts is due cacheTime later, a running
\* timer is not moved, and a query leaves the cache only when its timer is
\* due, with a `removed` event.
C11_RemovedWhenDue ==
    \A c \in Clients, h \in Hashes :
        /\ StartedTimerIsDueAfterCacheTime(c, h)
        /\ (Present(c, h) /\ PresentNext(c, h)
              /\ Cached(c, h).observers = 0 /\ CachedNext(c, h).observers = 0)
           => CachedNext(c, h).gcAt = Cached(c, h).gcAt
        /\ (Present(c, h) /\ ~PresentNext(c, h)) =>
              /\ Cached(c, h).observers = 0
              /\ Cached(c, h).cacheTime # Infinity
              /\ Cached(c, h).gcAt = now'
              /\ last'.op = "gc" /\ <<c, h>> \in last'.removed

\* C11: a query with no observers and cacheTime c is in the cache until c has
\* elapsed since its retention timer started and is removed, with a `removed`
\* event, when c has elapsed; with a cacheTime of Infinity the timer never
\* removes it.
C11_CacheGc == []C11_PresentUntilDue /\ [][C11_RemovedWhenDue]_vars

\* The timer has just removed the query of k1 (cacheTime 2), and the query of
\* k2 (cacheTime Infinity), made at time 1, is still in the cache.
C11_Witness ==
    /\ last.op = "gc" /\ <<"A", HashQueryKey("k1")>> \in last.removed
    /\ ~Present("A", HashQueryKey("k1"))
    /\ Present("A", HashQueryKey("k2"))
    /\ Cached("A", HashQueryKey("k2")).state.dataUpdatedAt = 1
    /\ Cached("A", HashQueryKey("k2")).observers = 0
    /\ now = 3

\* C12, in every state: a query with an observer has no retention timer.
C12_NoTimerWhileObserved ==
    \A c \in Clients, h \in Hashes :
        (Present(c, h) /\ Cached(c, h).observers > 0) => TimerUnset(Cached(c, h))

\* C12, in every step: a query with an observer stays in the cache, and when
\* its last observer leaves a new timer starts, due cacheTime later.
C12_KeptWhileObserved ==
    \A c \in Clients, h \in Hashes :
        /\ (Present(c, h) /\ Cached(c, h).observers > 0) => PresentNext(c, h)
        /\ (Present(c, h) /\ Cached(c, h).observers > 0) =>
                StartedTimerIsDueAfterCacheTime(c, h)

----------------------------------------------------------------------------
\* What the properties below read of a settling fetch

\* This step is an invocation of the fetch function of query h of client c
\* that throws or rejects.
FailsIn(c, h) ==
    /\ last'.op = "settle" /\ last'.client = c /\ last'.queryHash = h
    /\ last'.result = "throw"

\* In this step call n gets the outcome of the fetch it waited for.
Waiting(n) == n \in 1..Len(calls) /\ calls[n].joined /\ calls[n].outcome = Pending

\* C13 as stated, in every step: when the fetch function fails under a call
\* of fetchQueryData or prefetchQuery that gave no retry, it was invoked once
\* and the call settles at once, without a retry.
C13_NoRetryUnderAnyCall ==
    \A n \in 1..Len(calls) :
        (Waiting(n) /\ calls[n].retry = UndefinedNum
            /\ FailsIn(calls[n].client, calls[n].queryHash)) =>
                /\ last'.invocations = 1
                /\ last'.settled
                /\ calls'[n].outcome # Pending

C13_RetryAlwaysFalse == [][C13_NoRetryUnderAnyCall]_vars

\* C13, amended: a fetch started by a call of fetchQueryData or prefetchQuery
\* that gives no retry is not retried, whatever the client's default options
\* say: the failing function is invoked once and the call settles; a retry
\* given in the call is used as given, the function being invoked up to
\* retry + 1 times.  (A call that joins a fetch in flight waits for that
\* fetch, with the retry it was started with.)
C13_RetryOfStartingCall ==
    (last.op = "settle" /\ last.call > 0 /\ last.result = "throw") =>
        LET given == calls[last.call].retry
            retries == IF given = UndefinedNum THEN 0 ELSE given
        IN  /\ last.invocations <= retries + 1
            /\ last.settled <=> last.invocations = retries + 1
            /\ last.settled => calls[last.call].outcome # Pending

\* A fetch function that failed once under a call without retry on client A
\* (default options retry: 2), which has settled.
C13_Witness ==
    /\ last.op = "settle" /\ last.call > 0 /\ last.result = "throw"
    /\ calls[last.call].client = "A"
    /\ ClientDefaultOptions("A").retry = 2
    /\ calls[last.call].retry = UndefinedNum
    /\ last.invocations = 1 /\ last.settled
    /\ calls[last.call].outcome # Pending

\* C14 as stated: the promise of a call of fetchQueryData that did not pass
\* throwOnError: true is never rejected with the error of the fetch.
C14_ErrorsStayInside ==
    \A n \in 1..Len(calls) :
        (calls[n].kind = "fetchQueryData" /\ calls[n].throwOnError # "true") =>
            calls[n].outcome # Rejected("Error")

\* C14, amended, in every step: when a fetch fails for good the error is
\* recorded in the state of the query, and the promise of every call of
\* fetchQueryData that waits for it is rejected with the error, whether the
\* caller passed throwOnError or not.
C14_ErrorRecordedAndRejected ==
    \A c \in Clients, h \in Hashes :
        (FailsIn(c, h) /\ last'.settled) =>
            /\ PresentNext(c, h) =>
                    /\ CachedNext(c, h).state.status = "error"
                    /\ CachedNext(c, h).state.error = "Error"
                    /\ CachedNext(c, h).state.errorUpdatedAt = now
            /\ \A n \in 1..Len(calls) :
                    (Waiting(n) /\ calls[n].client = c /\ calls[n].queryHash = h
                        /\ calls[n].kind = "fetchQueryData") =>
                            calls'[n].outcome = Rejected("Error")

C14_FetchQueryDataRejects == [][C14_ErrorRecordedAndRejected]_vars

\* A call of fetchQueryData without throwOnError whose promise is rejected
\* with the error that the state of the query holds.
C14_Witness ==
    /\ last.op = "settle" /\ last.result = "throw" /\ last.settled
    /\ \E n \in 1..Len(calls) :
        /\ calls[n].kind = "fetchQueryData"
        /\ calls[n].throwOnError = Undefined
        /\ calls[n].outcome = Rejected("Error")
        /\ Cached(calls[n].client, calls[n].queryHash).state.error = "Error"

\* C15, in every state: the promise of a call of prefetchQuery is pending or
\* resolved with no value.
C15_NeverRejects ==
    \A n \in 1..Len(calls) :
        calls[n].kind = "prefetchQuery" =>
            calls[n].outcome \in {Pending, Resolved(Undefined)}

\* C15, in every step: a fetch that settles settles the prefetchQuery calls
\* that wait for it, and when it failed the query is left in the cache in
\* error status.
C15_FailedPrefetchLeavesError ==
    \A n \in 1..Len(calls) :
        (Waiting(n) /\ calls[n].kind = "prefetchQuery"
            /\ last'.op = "settle" /\ last'.settled
            /\ last'.client = calls[n].client /\ last'.queryHash = calls[n].queryHash) =>
                /\ calls'[n].outcome = Resolved(Undefined)
                /\ last'.result = "throw" =>
                        /\ PresentNext(calls[n].client, calls[n].queryHash)
                        /\ CachedNext(calls[n].client, calls[n].queryHash).state.status = "error"

\* C15: the promise of prefetchQuery never rejects and resolves with no
\* value, whether the fetch function succeeds or fails, and a failed prefetch
\* leaves the query in the cache in error status.
C15_PrefetchSwallows == []C15_NeverRejects /\ [][C15_FailedPrefetchLeavesError]_vars

\* A call of prefetchQuery whose fetch function failed: the promise is
\* resolved with no value and the query is in error status.
C15_Witness ==
    /\ last.op = "settle" /\ last.result = "throw" /\ last.settled
    /\ \E n \in 1..Len(calls) :
        /\ calls[n].kind = "prefetchQuery"
        /\ calls[n].invoked
        /\ n = last.call
        /\ calls[n].outcome = Resolved(Undefined)
        /\ Cached(calls[n].client, calls[n].queryHash).state.status = "error"

\* The number of entries of client c in a list of mounted clients.
Registrations(list, c) == Cardinality({i \in 1..Len(list) : list[i] = c})

\* C16: mount and unmount are idempotent per client reference: after a mount
\* the client is registered once, after an unmount it is not registered at
\* all and so no focus or online event reaches it, and an unmount never
\* changes the registration of another client.
C16_IdempotentStep ==
    /\ last'.op = "mount" => Registrations(mountedClients', last'.client) = 1
    /\ last'.op = "unmount" =>
            /\ Registrations(mountedClients', last'.client) = 0
            /\ \A c \in Clients \ {last'.client} :
                    Registrations(mountedClients', c) = Registrations(mountedClients, c)
    /\ last'.op \in {"focus", "online"} =>
            \A c \in last'.delivered : Registrations(mountedClients, c) = 1

C16_MountUnmountIdempotent == [][C16_IdempotentStep]_vars

\* Query i of the client of the last operation matched the filters of that
\* operation while its fetch was running.
MatchedFetching(i) ==
    /\ MatchQuery(last'.filters, cache[last'.client][i])
    /\ cache[last'.client][i].state.isFetching
    /\ retryers[last'.client][cache[last'.client][i].queryHash] # <<>>

\* The revert a cancelQueries call asks for, as the caller wrote it.
RevertAsked == IF last'.options.given THEN last'.options.revert ELSE Undefined

\* C17: cancelQueries cancels every query that matches the filters, with
\* revert = true unless the caller gives revert: false: a fetching query that
\* had data before the fetch is back in the state it had before the fetch
\* began (its data and timestamps, not fetching), with revert: false the
\* cancellation is recorded as an error, and the retryer is stopped; a query
\* that does not match, or that is not fetching, is left as it is.
C17_CancelStep ==
    last'.op = "cancelQueries" =>
        /\ Len(cache'[last'.client]) = Len(cache[last'.client])
        /\ \A i \in 1..Len(cache[last'.client]) :
            LET q == cache[last'.client][i]
                after == cache'[last'.client][i]
            IN  IF MatchedFetching(i)
                THEN /\ retryers'[last'.client][q.queryHash] = <<>>
                     /\ ~after.state.isFetching
                     /\ (RevertAsked # "false" /\ q.revertState.data # Undefined) =>
                            /\ after.state = q.revertState
                            /\ after.state = [q.state EXCEPT
                                   !.isFetching = FALSE,
                                   !.fetchFailureCount = q.revertState.fetchFailureCount]
                     /\ RevertAsked = "false" =>
                            /\ after.state.status = "error"
                            /\ after.state.error = "CancelledError"
                            /\ after.state.data = q.state.data
                ELSE after = q

C17_CancelQueriesReverts == [][C17_CancelStep]_vars

\* A refetch of a query with data was cancelled without a revert option, and
\* the query is back in its state from before the refetch.
C17_Witness ==
    /\ last.op = "cancelQueries"
    /\ ~last.options.given
    /\ last.cancelled # {}
    /\ \E i \in 1..Len(cache["A"]) :
            /\ cache["A"][i].queryHash \in last.cancelled
            /\ cache["A"][i].state.status = "success"
            /\ cache["A"][i].state.data = "a"
            /\ ~cache["A"][i].state.isFetching

\* C18: invalidateQueries marks every query that matches the filters as
\* invalidated, active or not, and starts a fetch only for queries that match
\* the filters: for the active ones unless refetchActive is false (and always
\* by default, when they are not fetching yet), for the inactive ones only
\* when refetchInactive is set.
C18_InvalidateStep ==
    last'.op = "invalidateQueries" =>
        \A i \in 1..Len(cache[last'.client]) :
            LET q == cache[last'.client][i]
                after == cache'[last'.client][i]
                filters == last'.filters
                started == q.queryHash \in last'.started
            IN  /\ MatchQuery(filters, q) => after.state.isInvalidated
                /\ started =>
                        /\ MatchQuery(filters, q)
                        /\ IsActive(q) => filters.refetchActive # "false"
                        /\ ~IsActive(q) => filters.refetchInactive = "true"
                /\ ( /\ MatchQuery(filters, q) /\ IsActive(q) /\ ~q.state.isFetching
                      /\ filters.refetchActive = Undefined
                      /\ filters.refetchInactive = Undefined ) => started

C18_InvalidateMatching == [][C18_InvalidateStep]_vars

\* The number of queries of client c with the hash h.
QueriesWithHash(c, h) ==
    Cardinality({i \in 1..Len(cache[c]) : cache[c][i].queryHash = h})

\* C19: for every key k, a cache holds at most one query with hash(k), after
\* any sequence of fetchQueryData, prefetchQuery, setQueryData, hydrate (of
\* payloads that list a queryHash more than once), removeQueries and garbage
\* collection.
C19_OneQueryPerHash ==
    \A c \in Clients, k \in Keys : QueriesWithHash(c, HashQueryKey(k)) <= 1

\* A payload that lists the hash of k2 twice was hydrated into a cache that
\* holds one query with that hash, and one with the hash of k1.
C19_Witness ==
    /\ last.op = "hydrate"
    /\ \E i, j \in 1..Len(last.payload.queries) :
            /\ i # j
            /\ last.payload.queries[i].queryHash = HashQueryKey("k2")
            /\ last.payload.queries[j].queryHash = HashQueryKey("k2")
    /\ QueriesWithHash("B", HashQueryKey("k2")) = 1
    /\ QueriesWithHash("B", HashQueryKey("k1")) = 1
    /\ \E n \in 1..Len(calls) : calls[n].existed

\* The notifications the subscriber of observer o received from the last batch.
ReceivedBy(o) == {j \in 1..Len(last.received) : last.received[j].observer = o}

\* The last operation was a batch of several setQueryData calls.
SeveralInBatch == last.op = "batch" /\ Len(last.updaters) >= 2

\* The value of the last setQueryData call of the batch.
FinalValue == last.updaters[Len(last.updaters)]

\* The result view of the query of the last batch, as it is after the batch.
FinalView ==
    ResultView(cache[last.client][CacheFind(cache[last.client], last.queryKey)])

UpdatedAtKept(c, h) ==
    (Present(c, h) /\ PresentNext(c, h)) =>
        CachedNext(c, h).state.updatedAt >= Cached(c, h).state.updatedAt

\* C21 (as stated): no state transition of a query lowers its state.updatedAt.
C21_NeverLowered == \A c \in Clients, h \in Hashes : UpdatedAtKept(c, h)

C21_UpdatedAtNonDecreasing == [][C21_NeverLowered]_vars

\* The step is a setQueryData call that gives an updatedAt.
GivesUpdatedAt == last'.op = "setQueryData" /\ last'.options.updatedAt # UndefinedNum

\* The step is a cancelQueries call that reverts.
Reverts == last'.op = "cancelQueries" /\ RevertAsked # "false"

\* The state of the query h of client c holds a timestamp later than the clock.
AheadOfClock(c, h) == Present(c, h) /\ Cached(c, h).state.updatedAt > now

\* C21 (amended): state.updatedAt is never lowered by hydrate or invalidate,
\* nor by a fetch success, a fetch failure, a setQueryData call without
\* updatedAt or a cancel with revert: false as long as it is not later than
\* the clock; a setQueryData call that gives an updatedAt and a cancel that
\* reverts may lower it.
C21_LoweredOnlyOnRequest ==
    \A c \in Clients, h \in Hashes :
        \/ UpdatedAtKept(c, h)
        \/ GivesUpdatedAt
        \/ Reverts
        \/ AheadOfClock(c, h) /\ last'.op \notin {"hydrate", "invalidateQueries"}

C21_UpdatedAtLoweredOnlyOnRequest == [][C21_LoweredOnlyOnRequest]_vars

\* A payload older than the state of the query was hydrated and dropped: the
\* query keeps the later updatedAt.
C21_Witness ==
    /\ last.op = "hydrate"
    /\ Present("B", HashQueryKey("k1"))
    /\ Cached("B", HashQueryKey("k1")).state.updatedAt > last.payload.queries[1].state.updatedAt
    /\ Cached("B", HashQueryKey("k1")).state.data # last.payload.queries[1].state.data

\* The state s has data, has an error.
HasData(s) == s.data # Undefined
HasError(s) == s.error \notin {"null", Undefined}

\* Nothing in the state s tells of a fetch or of data.
NeverFetched(s) ==
    /\ ~s.isFetching /\ ~HasData(s) /\ ~HasError(s)
    /\ s.dataUpdatedAt = 0 /\ s.errorUpdatedAt = 0 /\ s.fetchFailureCount = 0

\* C22: in every state of every query of a cache, hydrated ones included,
\* status is loading iff the query is fetching without data, success implies
\* data, error implies an error, and idle occurs only for a query that was
\* never fetched and has no data.
C22_StatusConsistent ==
    \A c \in Clients : \A i \in 1..Len(cache[c]) :
        LET s == cache[c][i].state
        IN  /\ (s.status = "loading") <=> (s.isFetching /\ ~HasData(s))
            /\ s.status = "success" => HasData(s)
            /\ s.status = "error" => HasError(s)
            /\ s.status = "idle" => NeverFetched(s)

\* The registered key entryKey matches the key asked for: the key asked for
\* is a leading part of it.
DefaultsMatch(entryKey, key) ==
    /\ Len(key) <= Len(entryKey)
    /\ SubSeq(entryKey, 1, Len(key)) = key

\* The entries of list that match key, by index.
DefaultsMatching(list, key) == {i \in 1..Len(list) : DefaultsMatch(list[i].key, key)}

\* got is what a lookup of key in list has to give: the options of the
\* earliest entry that matches, nothing when no entry matches.
FirstMatchWins(list, key, got) ==
    IF DefaultsMatching(list, key) = {}
    THEN ~got.found
    ELSE /\ got.found
         /\ \E i \in DefaultsMatching(list, key) :
                /\ \A j \in DefaultsMatching(list, key) : i <= j
                /\ got.defaultOptions = list[i].defaultOptions

\* before and after are the list around a registration of options under key:
\* the earliest matching entry has its options replaced and nothing else
\* changes, or, when none matches, one entry is added at the end.
ReplacedOrAppended(before, after, key, options) ==
    IF DefaultsMatching(before, key) = {}
    THEN after = Append(before, [key |-> key, defaultOptions |-> options])
    ELSE /\ Len(after) = Len(before)
         /\ \A i \in 1..Len(before) :
                IF i \in DefaultsMatching(before, key)
                   /\ \A j \in DefaultsMatching(before, key) : i <= j
                THEN after[i] = [key |-> before[i].key, defaultOptions |-> options]
                ELSE after[i] = before[i]

\* What every step keeps of the lookup, and what a registration does.
C23_DefaultsStep ==
    /\ \A key \in DefaultsKeys :
        /\ FirstMatchWins(queryDefaults'["A"], key, GetDefaults(queryDefaults'["A"], key))
        /\ FirstMatchWins(mutationDefaults'["A"], key, GetDefaults(mutationDefaults'["A"], key))
    /\ last'.op = "setQueryDefaults" =>
        /\ ReplacedOrAppended(queryDefaults[last'.client], queryDefaults'[last'.client],
                              last'.key, last'.options)
        /\ GetDefaults(queryDefaults'[last'.client], last'.key)
                = [found |-> TRUE, defaultOptions |-> last'.options]
        /\ mutationDefaults' = mutationDefaults
    /\ last'.op = "setMutationDefaults" =>
        /\ ReplacedOrAppended(mutationDefaults[last'.client], mutationDefaults'[last'.client],
                              last'.key, last'.options)
        /\ GetDefaults(mutationDefaults'[last'.client], last'.key)
                = [found |-> TRUE, defaultOptions |-> last'.options]
        /\ queryDefaults' = queryDefaults

\* C23: a lookup of defaults gives the options of the first registered entry
\* that partially matches the key, or nothing; registering options under a
\* key replaces the options of the first matching entry or, when none
\* matches, appends an entry, so that a lookup of the same key right after
\* gives the options just registered; for query defaults and for mutation
\* defaults alike.
C23_FirstPartialMatchWins == [][C23_DefaultsStep]_vars

\* Options were registered under a key that an earlier entry of another key
\* matches: that entry took the options, no entry of the key itself exists,
\* and other entries are registered besides.
C23_Witness ==
    /\ last.op = "setQueryDefaults"
    /\ Len(queryDefaults[last.client]) >= 2
    /\ \A i \in 1..Len(queryDefaults[last.client]) :
            queryDefaults[last.client][i].key # last.key
    /\ GetQueryDefaults(last.client, last.key)
            = [found |-> TRUE, defaultOptions |-> last.options]
    /\ \E i \in 1..Len(queryDefaults[last.client]) :
            queryDefaults[last.client][i].defaultOptions # last.options

\* The clients that are mounted as a step begins: those of the list, without
\* the client whose unmount() was the operation just before.
StillMounted ==
    {mountedClients[i] : i \in 1..Len(mountedClients)}
        \ (IF last.op = "unmount" THEN {last.client} ELSE {})

\* How many times x occurs in seq.
Occurrences(seq, x) == Cardinality({i \in 1..Len(seq) : seq[i] = x})

\* The caches an event has to reach: those of the mounted clients when the
\* page is visible and online, none otherwise.
CachesToReach(isVisibleAndOnline) ==
    IF isVisibleAndOnline
    THEN {[kind |-> "mutationCache", cache |-> GetMutationCache(c)] : c \in StillMounted}
         \cup {[kind |-> "queryCache", cache |-> GetQueryCache(c)] : c \in StillMounted}
    ELSE {}

\* What a focus or online event does.
C24_EventStep ==
    last'.op \in {"focus", "online"} =>
        LET received == last'.received
            toReach == CachesToReach(last'.isVisibleAndOnline)
        IN  /\ \A x \in toReach : Occurrences(received, x) = 1
            /\ \A i \in 1..Len(received) : received[i] \in toReach
            /\ \A i, j \in 1..Len(received) :
                    received[i].kind = "mutationCache" /\ received[j].kind = "queryCache"
                        => i < j
            /\ \A c \in Clients :
                    [kind |-> "queryCache", cache |-> c] \notin toReach
                        => cache'[c] = cache[c] /\ retryers'[c] = retryers[c]

\* C24: a focus or online event reaches caches only when the page is visible
\* and online, and then every distinct mutation cache and every distinct query
\* cache of the mounted clients receives it exactly once, mutation caches
\* before query caches, also when mounted clients share a cache; the caches
\* of clients that were never mounted or were unmounted receive nothing.
C24_EventReachesMountedCaches == [][C24_EventStep]_vars

\* What a refetch, a cancellation and every later step leave of the promises.
C25_PromiseStep ==
    /\ last'.op = "refetchQueries" =>
            \A i \in FindAll(cache[last'.client], last'.filters) :
                cache'[last'.client][i].state.isFetching
    /\ \A n \in 1..Len(calls') :
            calls'[n].kind = "refetchQueries" =>
                /\ calls'[n].outcome # Pending => calls'[n].awaits = {}
                /\ calls'[n].outcome.status = "rejected" =>
                        /\ calls'[n].throwOnError = "true"
                        /\ calls'[n].outcome.value \in {"Error", "CancelledError"}
                /\ calls'[n].outcome.status = "resolved" =>
                        calls'[n].outcome.value = Undefined
    /\ last'.op = "cancelQueries" => last'.promise = Resolved(Undefined)

\* C25: refetchQueries starts a fetch for every query that matches and its
\* promise settles only once all of those fetches have settled; it rejects
\* only when throwOnError is true and a fetch failed, and otherwise resolves
\* to no value; the promise of cancelQueries never rejects.
C25_RefetchSettlesAfterAll == [][C25_PromiseStep]_vars

\* What removeQueries and clear do to the caches.
C26_RemoveStep ==
    /\ last'.op = "removeQueries" =>
        LET c == last'.client
            before == cache[c]
            after == cache'[c]
            kept == {i \in 1..Len(before) : ~MatchQuery(last'.filters, before[i])}
        IN  /\ \A i \in 1..Len(before) :
                    IF i \in kept
                    THEN \E j \in 1..Len(after) : after[j] = before[i]
                    ELSE /\ \A j \in 1..Len(after) : after[j].queryHash # before[i].queryHash
                         /\ GetQueryData(after, before[i].queryKey) = Undefined
                         /\ ~GetQueryState(after, before[i].queryKey).found
            /\ Len(after) = Cardinality(kept)
            /\ \A d \in Clients \ {c} : cache'[d] = cache[d]
            /\ mutationCache' = mutationCache
    /\ last'.op = "clear" =>
        /\ cache'[GetQueryCache(last'.client)] = <<>>
        /\ mutationCache'[GetMutationCache(last'.client)] = <<>>

\* C26: removeQueries removes every query that matches the filters and leaves
\* every other query in the cache as it was; getQueryData and getQueryState
\* then give undefined for the removed keys; clear leaves the query cache and
\* the mutation cache empty.
C26_RemoveMatchingOnly == [][C26_RemoveStep]_vars

\* removeQueries with filters took a query with data out of a cache and left
\* another one, with data, in it.
C26_Witness ==
    /\ last.op = "removeQueries"
    /\ last.filters # NoFilters
    /\ last.removed # {}
    /\ \E i \in 1..Len(cache[last.client]) : cache[last.client][i].state.data # Undefined
    /\ \E queryKey \in Keys :
            /\ HashQueryKey(queryKey) \in last.removed
            /\ GetQueryData(cache[last.client], queryKey) = Undefined

\* The operation of the step is a hydration.
HydratedNext == last'.op = "hydrate"

\* The cache of the hydrated client after one more hydrate with what the
\* last one was given.
HydratedAgain ==
    Hydrate(cache'[last'.client], last'.payload, last'.defaultOptions, now').cache

\* What a hydration leaves to a second one, and what dehydrate leaves.
C27_HydrateStep ==
    /\ HydratedNext => HydratedAgain = cache'[last'.client]
    /\ (/\ Hydrated /\ HydratedNext
        /\ last'.client = last.client /\ last'.payload = last.payload
        /\ last'.defaultOptions = last.defaultOptions) => cache' = cache
    /\ dehydrated' # dehydrated =>
            /\ cache' = cache
            /\ retryers' = retryers

\* C27: hydrate is idempotent: a second hydration of the same payload, with
\* nothing in between, changes the state, the options and the cacheTime of no
\* query and adds no entry; and dehydrate does not modify the cache it reads.
C27_HydrateIdempotent == [][C27_HydrateStep]_vars

\* A hydration added a query to a cache or overwrote one, and a second one
\* of the same payload would leave the cache as it is.
C27_Witness ==
    /\ Hydrated
    /\ Len(last.payload.queries) > 0
    /\ cache[last.client] # last.trace[1]
    /\ \E i \in 1..Len(last.trace[1]) :
            /\ last.trace[1][i].queryHash = cache[last.client][i].queryHash
            /\ last.trace[1][i].state # cache[last.client][i].state
    /\ Hydrate(cache[last.client], last.payload, last.defaultOptions, now).cache
            = cache[last.client]

\* The state of the query h in the queries qs, as a set: empty when the query
\* is not there.
StateOf(qs, h) == {qs[i].state : i \in {j \in 1..Len(qs) : qs[j].queryHash = h}}

\* The states among `states` with the greatest updatedAt.
Freshest(states) == {s \in states : \A r \in states : r.updatedAt <= s.updatedAt}

\* The states the query k1 has after the payloads first and second are
\* hydrated, in this order, into the queries qs.
AfterBoth(qs, first, second) ==
    StateOf(Hydrate(Hydrate(qs, first, EmptyOptions, now).cache,
                    second, EmptyOptions, now).cache, HashQueryKey("k1"))

\* C28: hydration resolves by freshness whatever the order: for two payloads
\* that hold the same query with different updatedAt, hydrating the one then
\* the other and hydrating them the other way round both leave the query with
\* the state of whichever of the starting state and the two payloads has the
\* greatest updatedAt.
C28_HydrationOrderIndependent ==
    Hydrated =>
        \A second \in OrderPayloads \ {last.payload} :
            LET start == last.trace[1]
                candidates == StateOf(start, HashQueryKey("k1"))
                                \cup {last.payload.queries[1].state, second.queries[1].state}
                oneWay == StateOf(Hydrate(cache[last.client], second, EmptyOptions, now).cache,
                                  HashQueryKey("k1"))
            IN  /\ oneWay = AfterBoth(start, last.payload, second)
                /\ oneWay = AfterBoth(start, second, last.payload)
                /\ Cardinality(oneWay) = 1
                /\ oneWay \subseteq Freshest(candidates)

\* A payload newer than the data of the query was hydrated and took its
\* place; an older payload and a still newer one are left to hydrate.
C28_Witness ==
    /\ Hydrated
    /\ \E s \in StateOf(last.trace[1], HashQueryKey("k1")) : s.data = "b" /\ s.updatedAt = 1
    /\ last.payload.queries[1].state.updatedAt = 2
    /\ StateOf(cache[last.client], HashQueryKey("k1")) = {last.payload.queries[1].state}

====
